---- MODULE Spec2Model ----
(***************************************************************************)
(* A model of the fontsource core package: the range/name formatter        *)
(* (utils.ts), the subset data loader (subsets.ts), the file name          *)
(* generator (filename.ts), the CSS assembler (css.ts) and the build       *)
(* pipeline (processor.ts).                                                *)
(*                                                                         *)
(* Strings of the program are TLA+ strings wherever the program builds     *)
(* them by interpolation (file names, unicode-range strings, style sheet   *)
(* names, subset source texts).  A style sheet is the sequence of its      *)
(* @font-face blocks, each block the record of the values interpolated     *)
(* into the fixed template; the empty string is the empty sequence.        *)
(***************************************************************************)
EXTENDS Integers, Sequences, FiniteSets, TLC

VARIABLES
    pc,             \* position of the operation under study
    codepoints,     \* utils.ts: the argument of codepointsToRangeString
    rangeString,    \* utils.ts: the string it returned
    config,         \* the FontBuildConfig of the call
    subsets,        \* the Map<string, SubsetDefinition> of generateSubsetData
    warnings,       \* what console.warn was called with, in order
    variantList,    \* css.ts: the ProcessedVariant[] handed to the generators
    cssCall,        \* css.ts: the weight and style asked of generateStaticCSS
    css,            \* css.ts: the style sheet returned
    fontBuffers,    \* buildFont: the fonts the input buffers hold
    loadFonts,      \* buildFont: how glyphtContext.loadFonts ended
    fontRefs,       \* buildFont: the FontRef[] loadFonts returned
    allProcessingJobs, \* buildFont: the planned jobs, in plan order
    jobState,       \* buildFont: where each job's processSlice stands
    jobResults,     \* buildFont: what reduceConcur(toArray()) has collected
    allVariants,    \* buildFont: the collected results without the nulls
    package,        \* buildFont: the FontPackage it resolved with
    callArgs,       \* the arguments of the function called on its own
    callResult      \* what that function returned

pureVars == <<codepoints, rangeString, variantList, cssCall, css, callArgs, callResult>>

buildVars == <<fontBuffers, loadFonts, fontRefs, allProcessingJobs, jobState, jobResults,
               allVariants, package>>

vars == <<pc, config, subsets, warnings, pureVars, buildVars>>

\* What JavaScript calls null, where the model holds a string or nothing yet.
Null == "null"

\* A value that may be undefined (T | undefined).
Undefined == [defined |-> FALSE]
Some(v) == [defined |-> TRUE, value |-> v]

(***************************************************************************)
(* Bounds of the model.                                                    *)
(***************************************************************************)
\* Longest codepoint array handed to codepointsToRangeString.
MaxCodepoints == 4
\* Codepoints are drawn from 8 .. 8 + CodepointSpan (one and two hex digits,
\* digits and letters).
CodepointSpan == 9

CodepointPool == 8 .. (8 + CodepointSpan)

\* Most lines of a slicing-strategy source text.
MaxSlicingLines == 6
\* Most subset names a config requests of generateSubsetData.
MaxSubsetNames == 2
\* Longest variant list handed to generateStaticCSS and generateVariableCSS.
MaxVariants == 3
\* the longest job plan a build is started with
MaxJobs == 3
\* the largest slice index a file name is asked for
MaxSliceIndex == 2
MaxAxes == 3
MaxFonts == 2

(***************************************************************************)
(* Generic helpers for sequences and strings.                              *)
(***************************************************************************)
SeqsUpTo(S, n) == UNION {[1 .. k -> S] : k \in 0 .. n}

Elems(s) == {s[i] : i \in 1 .. Len(s)}

RECURSIVE Reverse(_)
\* Array.prototype.reverse
Reverse(s) == IF s = <<>> THEN <<>> ELSE Reverse(Tail(s)) \o <<Head(s)>>

CharAt(str, i) == SubSeq(str, i, i)

\* String.prototype.endsWith
EndsWith(str, suffix) ==
    /\ Len(str) >= Len(suffix)
    /\ SubSeq(str, Len(str) - Len(suffix) + 1, Len(str)) = suffix

\* String.prototype.startsWith
StartsWith(str, prefix) ==
    /\ Len(str) >= Len(prefix)
    /\ SubSeq(str, 1, Len(prefix)) = prefix

\* String.prototype.includes
Includes(str, part) ==
    \E i \in 1 .. (Len(str) - Len(part) + 1) : SubSeq(str, i, i + Len(part) - 1) = part

\* the first position of character c in str, 0 if there is none
IndexOfChar(str, c) ==
    IF \E i \in 1 .. Len(str) : CharAt(str, i) = c
    THEN CHOOSE i \in 1 .. Len(str) :
             CharAt(str, i) = c /\ \A j \in 1 .. (i - 1) : CharAt(str, j) # c
    ELSE 0

RECURSIVE Split(_, _)
\* String.prototype.split on a one-character separator
Split(str, sep) ==
    LET k == IndexOfChar(str, sep)
    IN IF k = 0 THEN <<str>>
       ELSE <<SubSeq(str, 1, k - 1)>> \o Split(SubSeq(str, k + 1, Len(str)), sep)

WhiteSpace == {" ", "\t", "\n", "\r"}

\* String.prototype.trim
Trim(str) ==
    LET kept == {i \in 1 .. Len(str) : CharAt(str, i) \notin WhiteSpace}
    IN IF kept = {} THEN ""
       ELSE SubSeq(str, CHOOSE i \in kept : \A j \in kept : i <= j,
                        CHOOSE i \in kept : \A j \in kept : i >= j)

RECURSIVE Join(_, _)
\* Array.prototype.join on an array of strings
Join(parts, sep) ==
    IF parts = <<>> THEN ""
    ELSE IF Len(parts) = 1 THEN parts[1]
    ELSE parts[1] \o sep \o Join(Tail(parts), sep)

(***************************************************************************)
(* utils.ts                                                                *)
(***************************************************************************)
HexDigits == <<"0", "1", "2", "3", "4", "5", "6", "7",
               "8", "9", "A", "B", "C", "D", "E", "F">>

RECURSIVE ToHexUpper(_)
\* n.toString(16).toUpperCase() for a non-negative integer
ToHexUpper(n) ==
    IF n < 16 THEN HexDigits[n + 1]
    ELSE ToHexUpper(n \div 16) \o HexDigits[(n % 16) + 1]

RECURSIVE Dedupe(_)
\* [...new Set(array)]: the first occurrence of each value, in order
Dedupe(s) ==
    IF s = <<>> THEN <<>>
    ELSE LET front == Dedupe(SubSeq(s, 1, Len(s) - 1))
             last == s[Len(s)]
         IN IF last \in Elems(front) THEN front ELSE front \o <<last>>

RECURSIVE SortAscending(_)
\* array.sort((a, b) => a - b)
SortAscending(s) ==
    IF s = <<>> THEN <<>>
    ELSE LET m == CHOOSE i \in 1 .. Len(s) :
                      \A j \in 1 .. Len(s) : s[i] < s[j] \/ (s[i] = s[j] /\ i <= j)
         IN <<s[m]>> \o SortAscending(SubSeq(s, 1, m - 1) \o SubSeq(s, m + 1, Len(s)))

\* utils.ts:16, taken as is: the array is trusted to be sorted already
SortedUniqueTrusting(cps) == cps

\* utils.ts:16: const sorted = [...new Set(codepoints)].sort((a, b) => a - b)
SortedUnique(cps) == SortAscending(Dedupe(cps))

\* utils.ts:23-29 and 34-40: one range, rendered
RenderRange(rangeStart, rangeEnd) ==
    IF rangeStart = rangeEnd
    THEN "U+" \o ToHexUpper(rangeStart)
    ELSE "U+" \o ToHexUpper(rangeStart) \o "-" \o ToHexUpper(rangeEnd)

RECURSIVE RangeLoop(_, _, _, _)
\* utils.ts:20-31: the loop over sorted[i], i from 1 (here from 2)
RangeLoop(sorted, i, rangeStart, ranges) ==
    IF i > Len(sorted)
    THEN \* utils.ts:33-41: the last range
         ranges \o <<RenderRange(rangeStart, sorted[Len(sorted)])>>
    ELSE IF sorted[i] # sorted[i - 1] + 1
         THEN RangeLoop(sorted, i + 1, sorted[i],
                        ranges \o <<RenderRange(rangeStart, sorted[i - 1])>>)
         ELSE RangeLoop(sorted, i + 1, rangeStart, ranges)

\* cps is a number[] | undefined
codepointsToRangeString(cps) ==
    IF ~cps.defined \/ cps.value = <<>> THEN ""
    ELSE LET sorted == SortedUnique(cps.value)
         IN Join(RangeLoop(sorted, 2, sorted[1], <<>>), ", ")

(***************************************************************************)
(* A JavaScript Map: its entries in insertion order.                       *)
(***************************************************************************)
MapHas(m, key) == \E i \in 1 .. Len(m) : m[i].key = key

\* Map.prototype.get: the value, or undefined
MapGet(m, key) ==
    IF MapHas(m, key)
    THEN Some(m[CHOOSE i \in 1 .. Len(m) : m[i].key = key].value)
    ELSE Undefined

\* Map.prototype.set
MapSet(m, key, value) ==
    IF MapHas(m, key)
    THEN [i \in 1 .. Len(m) |-> IF m[i].key = key THEN [key |-> key, value |-> value] ELSE m[i]]
    ELSE m \o <<[key |-> key, value |-> value]>>

MapKeys(m) == {m[i].key : i \in 1 .. Len(m)}

(***************************************************************************)
(* subsets.ts                                                              *)
(***************************************************************************)
\* What parseInt returns when no digit can be read.
NaN == -1

DecDigits == <<"0", "1", "2", "3", "4", "5", "6", "7", "8", "9">>
LowerHexDigits == <<"0", "1", "2", "3", "4", "5", "6", "7",
                    "8", "9", "a", "b", "c", "d", "e", "f">>

\* the value of character c as a digit of the radix, -1 if it is none
DigitOf(c, radix) ==
    IF \E d \in 1 .. radix : HexDigits[d] = c \/ LowerHexDigits[d] = c
    THEN (CHOOSE d \in 1 .. radix : HexDigits[d] = c \/ LowerHexDigits[d] = c) - 1
    ELSE -1

\* how many characters of str, from position from on, are digits of the radix
DigitRun(str, from, radix) ==
    LET stops == {i \in from .. Len(str) : DigitOf(CharAt(str, i), radix) < 0}
    IN IF stops = {} THEN Len(str) - from + 1
       ELSE (CHOOSE i \in stops : \A j \in stops : i <= j) - from

RECURSIVE DigitsValue(_, _)
DigitsValue(str, radix) ==
    IF str = "" THEN 0
    ELSE radix * DigitsValue(SubSeq(str, 1, Len(str) - 1), radix)
         + DigitOf(CharAt(str, Len(str)), radix)

\* parseInt(str, radix) of a string with no leading blank or sign; with
\* radix 16 a leading 0x is skipped
parseInt(str, radix) ==
    LET from == IF radix = 16 /\ (StartsWith(str, "0x") \/ StartsWith(str, "0X"))
                THEN 3 ELSE 1
        n == DigitRun(str, from, radix)
    IN IF n = 0 THEN NaN ELSE DigitsValue(SubSeq(str, from, from + n - 1), radix)

RECURSIVE SelectNamLines(_)
\* subsets.ts:11-13: map(trim), filter(startsWith('0x')), map(parseInt)
SelectNamLines(lines) ==
    IF lines = <<>> THEN <<>>
    ELSE LET line == Trim(Head(lines))
         IN (IF StartsWith(line, "0x")
             THEN <<parseInt(Split(line, " ")[1], 16)>>
             ELSE <<>>) \o SelectNamLines(Tail(lines))

parseNamFile(content) == SelectNamLines(Split(content, "\n"))

\* trimmedLine.match(/codepoints: (\d+)/): the first group, or no match
CodepointMatch(line) ==
    LET marker == "codepoints: "
        starts == {i \in 1 .. Len(line) :
                      /\ i + Len(marker) <= Len(line)
                      /\ SubSeq(line, i, i + Len(marker) - 1) = marker
                      /\ DigitOf(CharAt(line, i + Len(marker)), 10) >= 0}
    IN IF starts = {} THEN Undefined
       ELSE LET at == (CHOOSE i \in starts : \A j \in starts : i <= j) + Len(marker)
            IN Some(SubSeq(line, at, at + DigitRun(line, at, 10) - 1))

RECURSIVE SlicingLoop(_, _, _)
\* subsets.ts:25-41: the loop over the lines; currentSlice is number[] | null
SlicingLoop(lines, slices, currentSlice) ==
    IF lines = <<>> THEN slices
    ELSE LET trimmedLine == Trim(Head(lines))
             rest == Tail(lines)
         IN IF trimmedLine = "subsets {"
            THEN SlicingLoop(rest,
                             IF currentSlice.defined
                             THEN slices \o <<currentSlice.value>> ELSE slices,
                             Some(<<>>))
            ELSE IF StartsWith(trimmedLine, "codepoints:")
            THEN LET codepointMatch == CodepointMatch(trimmedLine)
                 IN IF codepointMatch.defined /\ currentSlice.defined
                    THEN SlicingLoop(rest, slices,
                             Some(currentSlice.value \o <<parseInt(codepointMatch.value, 10)>>))
                    ELSE SlicingLoop(rest, slices, currentSlice)
            ELSE IF trimmedLine = "}"
            THEN IF currentSlice.defined /\ Len(currentSlice.value) > 0
                 THEN SlicingLoop(rest, slices \o <<currentSlice.value>>, Undefined)
                 ELSE SlicingLoop(rest, slices, currentSlice)
            ELSE SlicingLoop(rest, slices, currentSlice)

\* subsets.ts:43, left out: the slices in the order of the file
SlicesInFileOrder(slices) == slices

\* subsets.ts:43: return slices.reverse()
SlicesInPriorityOrder(slices) == Reverse(slices)

RECURSIVE LoopDroppingUnclosed(_, _, _)
\* subsets.ts:25-41, line 28 left out: a block still open at the next
\* 'subsets {' is dropped
LoopDroppingUnclosed(lines, slices, currentSlice) ==
    IF lines = <<>> THEN slices
    ELSE LET trimmedLine == Trim(Head(lines))
             rest == Tail(lines)
         IN IF trimmedLine = "subsets {"
            THEN LoopDroppingUnclosed(rest, slices, Some(<<>>))
            ELSE IF StartsWith(trimmedLine, "codepoints:")
            THEN LET codepointMatch == CodepointMatch(trimmedLine)
                 IN IF codepointMatch.defined /\ currentSlice.defined
                    THEN LoopDroppingUnclosed(rest, slices,
                             Some(currentSlice.value \o <<parseInt(codepointMatch.value, 10)>>))
                    ELSE LoopDroppingUnclosed(rest, slices, currentSlice)
            ELSE IF trimmedLine = "}"
            THEN IF currentSlice.defined /\ Len(currentSlice.value) > 0
                 THEN LoopDroppingUnclosed(rest, slices \o <<currentSlice.value>>, Undefined)
                 ELSE LoopDroppingUnclosed(rest, slices, currentSlice)
            ELSE LoopDroppingUnclosed(rest, slices, currentSlice)

\* subsets.ts:21-44 with that loop
ParseDroppingUnclosed(fileContent) ==
    Reverse(LoopDroppingUnclosed(Split(fileContent, "\n"), <<>>, Undefined))

parseSlicingStrategy(fileContent) ==
    SlicesInPriorityOrder(SlicingLoop(Split(fileContent, "\n"), <<>>, Undefined))

\* subsets.ts:63, with a looser test: any mention of the word
IsSlicingStrategyByWord(fileContent) == Includes(fileContent, "subsets")

\* subsets.ts:63: fileContent.includes('subsets {')
IsSlicingStrategy(fileContent) == Includes(fileContent, "subsets {")

\* subsets.ts:64-74: the SubsetDefinition of one subset
SubsetDefinitionOf(name, fileContent) ==
    IF IsSlicingStrategy(fileContent)
    THEN LET slices == parseSlicingStrategy(fileContent)
         IN [name |-> name, type |-> "sliced",
             slices |-> [i \in 1 .. Len(slices) |-> [index |-> i, codepoints |-> slices[i]]]]
    ELSE LET cps == parseNamFile(fileContent)
         IN [name |-> name, type |-> "range",
             unicodeRange |-> codepointsToRangeString(Some(cps)), codepoints |-> cps]

\* subsets.ts:56-59, failing instead: a missing source is an error
MissingSourceThrows(out, name) == [out EXCEPT !.threw = TRUE]

\* subsets.ts:56-59: console.warn and continue
MissingSourceSkips(out, name) ==
    [out EXCEPT !.warnings = @ \o <<"WARN: No subset file content provided for " \o name>>]

RECURSIVE SubsetDataLoop(_, _, _)
\* subsets.ts:54-75: the loop over config.subsets from position i on
SubsetDataLoop(cfg, i, out) ==
    IF i > Len(cfg.subsets) \/ out.threw THEN out
    ELSE LET name == cfg.subsets[i]
             \* config.subsetSources?.[name]
             fileContent == IF name \in DOMAIN cfg.subsetSources
                            THEN Some(cfg.subsetSources[name]) ELSE Undefined
         IN IF ~fileContent.defined \/ fileContent.value = ""
            THEN SubsetDataLoop(cfg, i + 1, MissingSourceSkips(out, name))
            ELSE SubsetDataLoop(cfg, i + 1,
                     [out EXCEPT !.subsetData =
                         MapSet(@, name, SubsetDefinitionOf(name, fileContent.value))])

\* the returned map, what was warned, and whether the call threw instead
generateSubsetData(cfg) ==
    SubsetDataLoop(cfg, 1, [subsetData |-> <<>>, warnings |-> <<>>, threw |-> FALSE])

(***************************************************************************)
(* utils.ts: normalizeKebabCase                                            *)
(***************************************************************************)
UpperLetters == <<"A", "B", "C", "D", "E", "F", "G", "H", "I", "J", "K", "L", "M",
                  "N", "O", "P", "Q", "R", "S", "T", "U", "V", "W", "X", "Y", "Z">>
LowerLetters == <<"a", "b", "c", "d", "e", "f", "g", "h", "i", "j", "k", "l", "m",
                  "n", "o", "p", "q", "r", "s", "t", "u", "v", "w", "x", "y", "z">>

\* String.prototype.toLowerCase, one character
LowerChar(c) ==
    IF \E k \in 1 .. 26 : UpperLetters[k] = c
    THEN LowerLetters[CHOOSE k \in 1 .. 26 : UpperLetters[k] = c]
    ELSE c

RECURSIVE KebabFrom(_, _)
\* text.toLowerCase().replace(/\s+/g, '-') from position i on
KebabFrom(text, i) ==
    IF i > Len(text) THEN ""
    ELSE IF CharAt(text, i) \in WhiteSpace
         THEN IF i > 1 /\ CharAt(text, i - 1) \in WhiteSpace
              THEN KebabFrom(text, i + 1)
              ELSE "-" \o KebabFrom(text, i + 1)
         ELSE LowerChar(CharAt(text, i)) \o KebabFrom(text, i + 1)

normalizeKebabCase(text) == KebabFrom(text, 1)

\* utils.ts:49-53: value is a number or {min, defaultValue, max}
extractStyleValue(styleValue) ==
    IF styleValue.type = "single" THEN styleValue.value ELSE styleValue.value.defaultValue

(***************************************************************************)
(* filename.ts                                                             *)
(***************************************************************************)
\* filename.ts:6-10, the style kept as it is
KeepStyleForFilename(style) == style

\* filename.ts:6-10
normalizeStyleForFilename(style) ==
    IF StartsWith(style, "oblique ") THEN "italic" ELSE style

generateStaticFilename(familyId, subset, weight, style, sliceIndex, format) ==
    LET displayStyle == normalizeStyleForFilename(style)
        sliceSuffix == IF sliceIndex > 0 THEN "-" \o ToString(sliceIndex) ELSE ""
    IN familyId \o "-" \o subset \o "-" \o ToString(weight) \o "-" \o displayStyle
       \o sliceSuffix \o "." \o format

generateVariableFilename(familyId, subset, axisKey, style, sliceIndex, format) ==
    LET displayStyle == normalizeStyleForFilename(style)
        sliceSuffix == IF sliceIndex > 0 THEN "-" \o ToString(sliceIndex) ELSE ""
    IN familyId \o "-" \o subset \o "-" \o axisKey \o "-" \o displayStyle
       \o sliceSuffix \o "." \o format

(***************************************************************************)
(* css.ts                                                                  *)
(***************************************************************************)
Abs(n) == IF n < 0 THEN -n ELSE n

\* css.ts:19-28: one src entry; the entries are joined by ', '
FontSrcEntry(variant, isVariable) ==
    [url |-> "./files/" \o variant.filename,
     format |-> IF EndsWith(variant.filename, "woff2")
                THEN IF isVariable THEN "woff2-variations" ELSE "woff2"
                ELSE "woff"]

generateFontSrc(variants) ==
    IF Len(variants) = 0 THEN <<>>
    ELSE LET isVariable == variants[1].type = "variable"
         IN [i \in 1 .. Len(variants) |-> FontSrcEntry(variants[i], isVariable)]

\* css.ts:47-54: the unicode range of the group's subset or slice
GroupUnicodeRange(subset, sliceIndex) ==
    IF subset.type = "range" THEN subset.unicodeRange
    ELSE IF \E k \in 1 .. Len(subset.slices) : subset.slices[k].index = sliceIndex
         THEN codepointsToRangeString(
                  Some(subset.slices[CHOOSE k \in 1 .. Len(subset.slices) :
                           /\ subset.slices[k].index = sliceIndex
                           /\ \A j \in 1 .. (k - 1) : subset.slices[j].index # sliceIndex
                       ].codepoints))
         ELSE ""

\* css.ts:67-73, '100 900' whenever the wght axis is missing
FullSpanWithoutWght(variable) ==
    LET wght == MapGet(variable, "wght")
    IN IF wght.defined
       THEN IF wght.value.min = wght.value.max
            THEN ToString(wght.value.min)
            ELSE ToString(wght.value.min) \o " " \o ToString(wght.value.max)
       ELSE "100 900"

\* css.ts:67-73: font-weight of a variable block
VariableFontWeight(variable) ==
    LET wght == MapGet(variable, "wght")
    IN IF wght.defined
       THEN IF wght.value.min = wght.value.max
            THEN ToString(wght.value.min)
            ELSE ToString(wght.value.min) \o " " \o ToString(wght.value.max)
       ELSE IF Len(variable) = 0 THEN "100 900" ELSE "400"

\* css.ts:75-80, the larger magnitude written first
ObliqueLargestFirst(variable) ==
    LET slnt == MapGet(variable, "slnt")
        lo == IF Abs(slnt.value.min) < Abs(slnt.value.max)
              THEN Abs(slnt.value.min) ELSE Abs(slnt.value.max)
        hi == IF Abs(slnt.value.min) < Abs(slnt.value.max)
              THEN Abs(slnt.value.max) ELSE Abs(slnt.value.min)
    IN IF slnt.defined /\ (slnt.value.min # 0 \/ slnt.value.max # 0)
       THEN IF slnt.value.min = slnt.value.max
            THEN "oblique " \o ToString(Abs(slnt.value.min)) \o "deg"
            ELSE "oblique " \o ToString(hi) \o "deg " \o ToString(lo) \o "deg"
       ELSE "normal"

\* css.ts:75-80: font-style of a variable block
VariableFontStyle(variable) ==
    LET slnt == MapGet(variable, "slnt")
    IN IF slnt.defined /\ (slnt.value.min # 0 \/ slnt.value.max # 0)
       THEN IF slnt.value.min = slnt.value.max
            THEN "oblique " \o ToString(Abs(slnt.value.min)) \o "deg"
            ELSE "oblique " \o ToString(Abs(slnt.value.max)) \o "deg "
                 \o ToString(Abs(slnt.value.min)) \o "deg"
       ELSE "normal"

\* css.ts:82-84, no declaration for a single width
StretchOnlyForSpan(variable) ==
    LET wdth == MapGet(variable, "wdth")
    IN IF wdth.defined /\ wdth.value.min # wdth.value.max
       THEN "\n  font-stretch: " \o ToString(wdth.value.min) \o "% "
            \o ToString(wdth.value.max) \o "%;"
       ELSE ""

\* css.ts:60, 82-84: the font-stretch declaration of a variable block, ""
\* for the null that line 109 prints as nothing
VariableFontStretch(variable) ==
    LET wdth == MapGet(variable, "wdth")
    IN IF wdth.defined
       THEN "\n  font-stretch: "
            \o (IF wdth.value.min = wdth.value.max
                THEN ToString(wdth.value.min) \o "%"
                ELSE ToString(wdth.value.min) \o "% "
                     \o ToString(wdth.value.max) \o "%")
            \o ";"
       ELSE ""

\* css.ts:63-87: style, weight, stretch and comment of a variable block
VariableFace(family, firstVariant) ==
    LET weight == VariableFontWeight(firstVariant.variable)
        style == VariableFontStyle(firstVariant.variable)
        stretch == VariableFontStretch(firstVariant.variable)
        normalizedStyle == IF StartsWith(style, "oblique ") THEN "italic" ELSE style
    IN [style |-> style, weight |-> weight, stretch |-> stretch,
        comment |-> normalizeKebabCase(family) \o "-" \o firstVariant.subset \o "-"
                    \o firstVariant.axisKey \o "-" \o normalizedStyle]

\* css.ts:88-93: style, weight and comment of a static block
StaticFace(family, firstVariant) ==
    LET style == firstVariant.style
        weight == ToString(firstVariant.weight)
        normalizedStyle == IF StartsWith(style, "oblique ") THEN "italic" ELSE style
    IN [style |-> style, weight |-> weight, stretch |-> "",
        comment |-> normalizeKebabCase(family) \o "-" \o firstVariant.subset \o "-"
                    \o weight \o "-" \o normalizedStyle]

\* css.ts:35-114: the text of one @font-face rule as the sequence of its
\* blocks: none for the empty string, else the one block
generateFontFace(family, variants, subset) ==
    IF Len(variants) = 0 THEN <<>>
    ELSE LET firstVariant == variants[1]
             sliceIndex == firstVariant.sliceIndex
             unicodeRange == GroupUnicodeRange(subset, sliceIndex)
         IN IF unicodeRange = "" THEN <<>>
            ELSE LET face == IF firstVariant.type = "variable"
                             THEN VariableFace(family, firstVariant)
                             ELSE StaticFace(family, firstVariant)
                 IN <<[comment |-> IF sliceIndex > 0
                                   THEN face.comment \o "-" \o ToString(sliceIndex)
                                   ELSE face.comment,
                       fontFamily |-> IF firstVariant.type = "variable"
                                      THEN family \o " Variable" ELSE family,
                       fontStyle |-> face.style,
                       fontWeight |-> face.weight,
                       stretch |-> face.stretch,
                       src |-> generateFontSrc(variants),
                       unicodeRange |-> unicodeRange]>>

\* css.ts:128, the slice index left out of the key
GroupKeyBySubset(variant) == variant.subset

\* css.ts:128
GroupKey(variant) == variant.subset \o "-" \o ToString(variant.sliceIndex)

RECURSIVE GroupVariants(_, _)
\* css.ts:125-133: the Map from key to group, in insertion order
GroupVariants(variants, groupedVariants) ==
    IF variants = <<>> THEN groupedVariants
    ELSE LET variant == Head(variants)
             key == GroupKey(variant)
             found == MapGet(groupedVariants, key)
             group == IF found.defined THEN found.value ELSE <<>>
         IN GroupVariants(Tail(variants), MapSet(groupedVariants, key, group \o <<variant>>))

RECURSIVE RenderGroups(_, _, _)
\* css.ts:136-143: the rules of the groups, concatenated
RenderGroups(family, groups, subsetMap) ==
    IF groups = <<>> THEN <<>>
    ELSE LET group == Head(groups).value
             subset == MapGet(subsetMap, group[1].subset)
         IN (IF subset.defined THEN generateFontFace(family, group, subset.value) ELSE <<>>)
            \o RenderGroups(family, Tail(groups), subsetMap)

generateCSS(family, variants, subsetMap) ==
    RenderGroups(family, GroupVariants(variants, <<>>), subsetMap)

\* css.ts:156-159, the style left out of the test
IsStaticOfWeight(variant, weight, style) ==
    variant.type = "static" /\ variant.weight = weight

\* css.ts:156-159: the filter of generateStaticCSS
IsStaticOf(variant, weight, style) ==
    variant.type = "static" /\ variant.weight = weight /\ variant.style = style

\* css.ts:171-172: the filter of generateVariableCSS
IsVariable(variant) == variant.type = "variable"

generateStaticCSS(family, weight, style, variants, subsetMap) ==
    LET staticVariants == SelectSeq(variants, LAMBDA v : IsStaticOf(v, weight, style))
    IN generateCSS(family, staticVariants, subsetMap)

generateVariableCSS(family, variants, subsetMap) ==
    LET variableVariants == SelectSeq(variants, LAMBDA v : IsVariable(v))
    IN generateCSS(family, variableVariants, subsetMap)

(***************************************************************************)
(* processor.ts: style metadata, targets and axis key                      *)
(***************************************************************************)
\* Array.prototype.flatMap, given the arrays the callback returned
FlatMap(mapped) ==
    LET upTo[i \in 0 .. Len(mapped)] == IF i = 0 THEN <<>> ELSE upTo[i - 1] \o mapped[i]
    IN upTo[Len(mapped)]

\* Array.prototype.includes
Contains(s, x) == \E i \in 1 .. Len(s) : s[i] = x

\* Set.prototype.add on a Set kept in insertion order
SetAdd(s, x) == IF Contains(s, x) THEN s ELSE s \o <<x>>

\* array?.length, as a condition
HasLength(optional) == optional.defined /\ Len(optional.value) > 0

RECURSIVE LowerCase(_)
\* String.prototype.toLowerCase
LowerCase(str) ==
    IF str = "" THEN ""
    ELSE LowerChar(CharAt(str, 1)) \o LowerCase(SubSeq(str, 2, Len(str)))

\* processor.ts:57-77
extractFontStyle(font) ==
    LET weight == IF font.styleValues.weight.type = "single"
                  THEN font.styleValues.weight.value
                  ELSE extractStyleValue(font.styleValues.weight)
        italicValue == extractStyleValue(font.styleValues.italic)
        slantValue == extractStyleValue(font.styleValues.slant)
    IN [weight |-> weight,
        style |-> IF italicValue > 0 THEN "italic"
                  ELSE IF slantValue # 0
                       THEN "oblique " \o ToString(Abs(slantValue)) \o "deg"
                       ELSE "normal"]

\* processor.ts:104-121, the declared default of a range left out
WeightsWithoutDefault(font, availableWeights) ==
    IF font.styleValues.weight.type = "single"
    THEN SetAdd(availableWeights, font.styleValues.weight.value)
    ELSE LET range == font.styleValues.weight.value
             withMinMax == SetAdd(SetAdd(availableWeights, range.min), range.max)
             standard[k \in 0 .. 10] ==
                 IF k = 0 THEN withMinMax
                 ELSE IF 100 * k >= range.min /\ 100 * k <= range.max
                      THEN SetAdd(standard[k - 1], 100 * k)
                      ELSE standard[k - 1]
         IN standard[10]

\* processor.ts:104-121: the weights one font adds to availableWeights
WeightsOfFont(font, availableWeights) ==
    IF font.styleValues.weight.type = "single"
    THEN SetAdd(availableWeights, font.styleValues.weight.value)
    ELSE LET range == font.styleValues.weight.value
             withMinMax == SetAdd(SetAdd(availableWeights, range.min), range.max)
             withDefault == IF range.defaultValue # 0
                            THEN SetAdd(withMinMax, range.defaultValue) ELSE withMinMax
             standard[k \in 0 .. 10] ==
                 IF k = 0 THEN withDefault
                 ELSE IF 100 * k >= range.min /\ 100 * k <= range.max
                      THEN SetAdd(standard[k - 1], 100 * k)
                      ELSE standard[k - 1]
         IN standard[10]

\* processor.ts:82-135
determineProcessingTargets(fonts, cfg) ==
    IF cfg.type = "static" /\ HasLength(cfg.weights) /\ HasLength(cfg.styles)
    THEN [weightsToProcess |-> cfg.weights.value, stylesToProcess |-> cfg.styles.value]
    ELSE LET available[i \in 0 .. Len(fonts)] ==
                 IF i = 0 THEN [weights |-> <<>>, styles |-> <<>>]
                 ELSE [weights |-> WeightsOfFont(fonts[i], available[i - 1].weights),
                       styles |-> SetAdd(available[i - 1].styles,
                                         extractFontStyle(fonts[i]).style)]
             availableWeights == available[Len(fonts)].weights
             availableStyles == available[Len(fonts)].styles
         IN [weightsToProcess |->
                 IF cfg.type = "static" /\ HasLength(cfg.weights)
                 THEN cfg.weights.value ELSE SortAscending(availableWeights),
             stylesToProcess |->
                 IF cfg.type = "static" /\ HasLength(cfg.styles)
                 THEN cfg.styles.value ELSE availableStyles]

StandardAxisSet == {"wght", "wdth", "slnt", "opsz", "ital"}

\* processor.ts:140-169, the standard axes left out of the count that
\* decides between 'full' and the custom tag
AxisKeyOfCustomOnly(variableConfig, configAxisKey) ==
    IF configAxisKey.defined /\ configAxisKey.value # ""
    THEN LowerCase(configAxisKey.value)
    ELSE LET present == SelectSeq(variableConfig, LAMBDA entry : entry.value # Undefined)
             tags == [i \in 1 .. Len(present) |-> present[i].key]
             standard == SelectSeq(tags, LAMBDA axis : axis \in StandardAxisSet)
             custom == SelectSeq(tags, LAMBDA axis : axis \notin StandardAxisSet)
         IN IF Len(standard) = 0 /\ Len(custom) = 0 THEN "wght"
            ELSE IF Len(custom) > 0
                 THEN IF Len(custom) > 1 THEN "full" ELSE custom[1]
                 ELSE IF Len(standard) > 1 THEN "standard" ELSE standard[1]

\* processor.ts:140-169; variableConfig holds its axes in key order, an axis
\* whose value is undefined (types.ts:47) with the value Undefined
determineAxisKey(variableConfig, configAxisKey) ==
    IF configAxisKey.defined /\ configAxisKey.value # ""
    THEN LowerCase(configAxisKey.value)
    ELSE LET present == SelectSeq(variableConfig, LAMBDA entry : entry.value # Undefined)
             tags == [i \in 1 .. Len(present) |-> present[i].key]
             standard == SelectSeq(tags, LAMBDA axis : axis \in StandardAxisSet)
             custom == SelectSeq(tags, LAMBDA axis : axis \notin StandardAxisSet)
         IN IF Len(standard) = 0 /\ Len(custom) = 0 THEN "wght"
            ELSE IF Len(custom) > 0
                 THEN IF Len(standard) > 0 \/ Len(custom) > 1 THEN "full" ELSE custom[1]
                 ELSE IF Len(standard) > 1 THEN "standard" ELSE standard[1]

\* processor.ts:171-176
standardAxisPropertyMap ==
    <<[key |-> "wght", value |-> "weight"], [key |-> "slnt", value |-> "slant"],
      [key |-> "wdth", value |-> "width"], [key |-> "ital", value |-> "italic"]>>

\* processor.ts:188-206: the constraint of one configured axis
VariableAxisValue(font, tag, axis) ==
    LET styleKey == MapGet(standardAxisPropertyMap, tag)
        styleValue == IF styleKey.defined /\ styleKey.value \in DOMAIN font.styleValues
                      THEN Some(font.styleValues[styleKey.value]) ELSE Undefined
        defaultValue == IF styleValue.defined /\ styleValue.value.type = "variable"
                        THEN styleValue.value.value.defaultValue
                        ELSE axis.min
    IN [type |-> "variable", tag |-> tag,
        value |-> [min |-> axis.min, defaultValue |-> defaultValue, max |-> axis.max]]

\* processor.ts:178-215, the weight constraint made for every font
WeightConstraintForAnyFont(font, variableConfig, targetWeight) ==
    IF variableConfig.defined
    THEN LET present == SelectSeq(variableConfig.value, LAMBDA entry : entry.value # Undefined)
         IN [i \in 1 .. Len(present) |->
                VariableAxisValue(font, present[i].key, present[i].value)]
    ELSE IF targetWeight.defined /\ targetWeight.value # 0
         THEN <<[type |-> "single", tag |-> "wght", value |-> targetWeight.value]>>
         ELSE <<>>

\* processor.ts:178-215; variableConfig and targetWeight may be undefined,
\* and so may the value of an axis of variableConfig (line 187)
buildAxisValues(font, variableConfig, targetWeight) ==
    IF variableConfig.defined
    THEN LET present == SelectSeq(variableConfig.value, LAMBDA entry : entry.value # Undefined)
         IN [i \in 1 .. Len(present) |->
                VariableAxisValue(font, present[i].key, present[i].value)]
    ELSE IF targetWeight.defined /\ targetWeight.value # 0
            /\ font.styleValues.weight.type = "variable"
         THEN <<[type |-> "single", tag |-> "wght", value |-> targetWeight.value]>>
         ELSE <<>>

(***************************************************************************)
(* processor.ts: the ProcessedVariant of processSlice                      *)
(***************************************************************************)
\* processor.ts:268-283
StaticVariant(familyId, subsetName, sliceIndex, weight, style, format, content) ==
    [type |-> "static", weight |-> weight, style |-> style, subset |-> subsetName,
     sliceIndex |-> sliceIndex, content |-> content,
     filename |-> generateStaticFilename(familyId, subsetName, weight, style,
                                         sliceIndex, format)]

\* processor.ts:249-266
VariableVariant(familyId, subsetName, sliceIndex, weight, style, format, content, variableConfig, axisKey) ==
    [type |-> "variable", weight |-> weight, style |-> style, subset |-> subsetName,
     sliceIndex |-> sliceIndex, content |-> content,
     filename |-> generateVariableFilename(familyId, subsetName, axisKey, style,
                                           sliceIndex, format),
     variable |-> variableConfig, axisKey |-> axisKey]

(***************************************************************************)
(* processor.ts: jobs, processSlice and the CSS assets                     *)
(***************************************************************************)
\* processor.ts:290-333, the slice jobs expanded across the first format only
JobsOfFirstFormat(font, subsetName, subsetDef, weight, style, formats, targetWeight, variableConfig, axisKey) ==
    LET job(cps, sliceIndex) ==
            [font |-> font, subsetName |-> subsetName, weight |-> weight, style |-> style,
             targetWeight |-> targetWeight, variableConfig |-> variableConfig,
             axisKey |-> axisKey, codepoints |-> cps, sliceIndex |-> sliceIndex,
             format |-> formats[1]]
    IN IF formats = <<>> THEN <<>>
       ELSE IF subsetDef.type = "sliced"
       THEN [i \in 1 .. Len(subsetDef.slices) |->
                job(subsetDef.slices[i].codepoints, subsetDef.slices[i].index)]
       ELSE <<job(subsetDef.codepoints, 0)>>

\* processor.ts:290-333; font is the position of the FontRef in fontRefs
createJobsForSubset(font, subsetName, subsetDef, weight, style, formats, targetWeight, variableConfig, axisKey) ==
    LET baseJob(cps, sliceIndex) ==
            [font |-> font, subsetName |-> subsetName, weight |-> weight, style |-> style,
             targetWeight |-> targetWeight, variableConfig |-> variableConfig,
             axisKey |-> axisKey, codepoints |-> cps, sliceIndex |-> sliceIndex]
        sliceJobs ==
            IF subsetDef.type = "sliced"
            THEN [i \in 1 .. Len(subsetDef.slices) |->
                     baseJob(subsetDef.slices[i].codepoints, subsetDef.slices[i].index)]
            ELSE <<baseJob(subsetDef.codepoints, 0)>>
        withFormat(job, format) ==
            [font |-> job.font, subsetName |-> job.subsetName, weight |-> job.weight,
             style |-> job.style, targetWeight |-> job.targetWeight,
             variableConfig |-> job.variableConfig, axisKey |-> job.axisKey,
             codepoints |-> job.codepoints, sliceIndex |-> job.sliceIndex,
             format |-> format]
        expand(job) == [f \in 1 .. Len(formats) |-> withFormat(job, formats[f])]
    IN FlatMap([i \in 1 .. Len(sliceJobs) |-> expand(sliceJobs[i])])

\* processor.ts:447-459, every weight to process taken as fitting
EveryWeightApplies(fontRef, cfg, weightsToProcess) ==
    LET own == extractFontStyle(fontRef)
    IN IF cfg.type = "variable"
       THEN <<[weight |-> own.weight, style |-> own.style, targetWeight |-> Undefined]>>
       ELSE [k \in 1 .. Len(weightsToProcess) |->
                [weight |-> weightsToProcess[k], style |-> own.style,
                 targetWeight |-> Some(weightsToProcess[k])]]

\* processor.ts:447-459: the targets one font file can satisfy
ApplicableWeights(fontRef, cfg, weightsToProcess) ==
    LET own == extractFontStyle(fontRef)
    IN IF cfg.type = "variable"
       THEN <<[weight |-> own.weight, style |-> own.style, targetWeight |-> Undefined]>>
       ELSE LET fitting == SelectSeq(weightsToProcess, LAMBDA w :
                               \/ fontRef.styleValues.weight.type = "variable"
                               \/ fontRef.styleValues.weight.value = w)
            IN [k \in 1 .. Len(fitting) |->
                   [weight |-> fitting[k], style |-> own.style,
                    targetWeight |-> Some(fitting[k])]]

\* processor.ts:426-480: allProcessingJobs
PlanJobs(fonts, cfg, subsetMap) ==
    LET targets == determineProcessingTargets(fonts, cfg)
        isVariableFont == cfg.type = "variable"
        variableConfig == IF isVariableFont THEN Some(cfg.variable) ELSE Undefined
        resolvedAxisKey == IF isVariableFont
                           THEN Some(determineAxisKey(cfg.variable, cfg.axisKey))
                           ELSE Undefined
        jobsOfSubset(font, target, subsetName) ==
            LET subsetDef == MapGet(subsetMap, subsetName)
            IN IF subsetDef.defined
               THEN createJobsForSubset(font, subsetName, subsetDef.value, target.weight,
                                        target.style, cfg.formats, target.targetWeight,
                                        variableConfig, resolvedAxisKey)
               ELSE <<>>
        jobsOfTarget(font, target) ==
            FlatMap([i \in 1 .. Len(cfg.subsets) |-> jobsOfSubset(font, target, cfg.subsets[i])])
        jobsOfFont(font) ==
            IF ~Contains(targets.stylesToProcess, extractFontStyle(fonts[font]).style)
            THEN <<>>
            ELSE LET applicableWeights ==
                         ApplicableWeights(fonts[font], cfg, targets.weightsToProcess)
                 IN FlatMap([i \in 1 .. Len(applicableWeights) |->
                                jobsOfTarget(font, applicableWeights[i])])
    IN FlatMap([font \in 1 .. Len(fonts) |-> jobsOfFont(font)])

\* what font.subset and compressFromTTF give: a binary that is a function of
\* the font, the constraints, the codepoints and the format
EngineOutput(font, axisValues, cps, format) ==
    [font |-> font, axisValues |-> axisValues, codepoints |-> cps, format |-> format]

\* processor.ts:220-285: the variant of a job both of whose calls return
processSlice(familyId, fonts, job) ==
    LET axisValues == buildAxisValues(fonts[job.font], job.variableConfig, job.targetWeight)
        content == EngineOutput(job.font, axisValues, job.codepoints, job.format)
    IN IF job.variableConfig.defined /\ job.axisKey.defined /\ job.axisKey.value # ""
       THEN VariableVariant(familyId, job.subsetName, job.sliceIndex, job.weight, job.style,
                            job.format, content, job.variableConfig.value, job.axisKey.value)
       ELSE StaticVariant(familyId, job.subsetName, job.sliceIndex, job.weight, job.style,
                          job.format, content)

\* processor.ts:500-507 without the catch: the error leaves processJob
RethrowJobError(job) == [rejects |-> TRUE, result |-> Undefined, warning |-> <<>>]

\* processor.ts:500-507: the catch of processJob (null is Undefined here)
CatchJobError(job) ==
    [rejects |-> FALSE, result |-> Undefined,
     warning |-> <<"Failed to process "
                   \o (IF job.variableConfig.defined THEN "variable" ELSE "static")
                   \o " font"
                   \o (IF job.sliceIndex > 0 THEN " slice " \o ToString(job.sliceIndex) ELSE "")
                   \o " for " \o job.subsetName \o " (" \o job.format \o "):">>]

\* processor.ts:516, stopping at the first null
VariantsBeforeFirstNull(collected) ==
    LET nulls == {i \in 1 .. Len(collected) : ~collected[i].defined}
        stop == IF nulls = {} THEN Len(collected) + 1
                ELSE CHOOSE i \in nulls : \A j \in nulls : i <= j
    IN [i \in 1 .. (stop - 1) |-> collected[i].value]

\* processor.ts:516: .filter((variant) => variant !== null)
NonNullVariants(collected) ==
    LET kept == SelectSeq(collected, LAMBDA r : r.defined)
    IN [i \in 1 .. Len(kept) |-> kept[i].value]

\* processor.ts:510-515, resolving with the first job to settle
SomeJobSettled(states) ==
    Len(states) = 0 \/ \E j \in 1 .. Len(states) : states[j] \in {"done", "failed"}

\* processor.ts:510-515: the awaited pipe resolves when every job has settled
AllJobsSettled(states) ==
    \A j \in 1 .. Len(states) : states[j] \in {"done", "failed"}

\* processor.ts:378-390: the reduce over weightsToProcess
ClosestTo400(weightsToProcess) ==
    LET closest[i \in 1 .. Len(weightsToProcess)] ==
            IF i = 1 THEN weightsToProcess[1]
            ELSE LET current == weightsToProcess[i]
                     closestDiff == Abs(closest[i - 1] - 400)
                     currentDiff == Abs(current - 400)
                 IN IF currentDiff < closestDiff
                       \/ (currentDiff = closestDiff /\ current > closest[i - 1])
                    THEN current ELSE closest[i - 1]
    IN closest[Len(weightsToProcess)]

\* processor.ts:356-374: the style sheets of the (weight, style) pairs
StaticSheets(cfg, subsetMap, variants, weightsToProcess, stylesToProcess) ==
    LET sheet(weight, style) ==
            LET cssContent == generateStaticCSS(cfg.family, weight, style, variants, subsetMap)
            IN IF cssContent # <<>>
               THEN <<[filename |-> IF style = "normal" THEN ToString(weight) \o ".css"
                                    ELSE ToString(weight) \o "-italic.css",
                       content |-> cssContent]>>
               ELSE <<>>
    IN FlatMap([w \in 1 .. Len(weightsToProcess) |->
                   FlatMap([st \in 1 .. Len(stylesToProcess) |->
                               sheet(weightsToProcess[w], stylesToProcess[st])])])

\* processor.ts:338-402
generateAllCssAssets(cfg, subsetMap, variants, weightsToProcess, stylesToProcess) ==
    IF cfg.type = "variable"
    THEN LET cssContent == generateVariableCSS(cfg.family, variants, subsetMap)
         IN IF cssContent # <<>>
            THEN <<[filename |-> "index.css", content |-> cssContent]>>
            ELSE <<>>
    ELSE LET cssAssets == StaticSheets(cfg, subsetMap, variants,
                                       weightsToProcess, stylesToProcess)
         IN IF Len(weightsToProcess) > 0
            THEN LET defaultWeight == ClosestTo400(weightsToProcess)
                     found == {i \in 1 .. Len(cssAssets) :
                                  cssAssets[i].filename = ToString(defaultWeight) \o ".css"}
                 IN IF found # {}
                    THEN cssAssets \o
                         <<[filename |-> "index.css",
                            content |-> cssAssets[CHOOSE i \in found :
                                                      \A j \in found : i <= j].content]>>
                    ELSE cssAssets
            ELSE cssAssets

\* processor.ts:518-530: the FontPackage of the collected job results
PackageOf(cfg, fonts, subsetMap, collected) ==
    LET variants == NonNullVariants(collected)
        targets == determineProcessingTargets(fonts, cfg)
    IN [css |-> generateAllCssAssets(cfg, subsetMap, variants,
                                     targets.weightsToProcess, targets.stylesToProcess),
        fonts |-> [i \in 1 .. Len(variants) |->
                      [filename |-> "files/" \o variants[i].filename,
                       content |-> variants[i].content]]]

\* no function is called on its own
NoCall ==
    /\ callArgs = Null
    /\ callResult = Null

\* no build is under way
NoBuild ==
    /\ fontBuffers = Null
    /\ loadFonts = Null
    /\ fontRefs = Null
    /\ allProcessingJobs = Null
    /\ jobState = Null
    /\ jobResults = Null
    /\ allVariants = Null
    /\ package = Null

(***************************************************************************)
(* SpecRange: codepointsToRangeString applied to every bounded input.      *)
(***************************************************************************)
RangeInputs == {Some(s) : s \in SeqsUpTo(CodepointPool, MaxCodepoints)} \cup {Undefined}

InitRange ==
    /\ pc = "range:call"
    /\ NoBuild
    /\ NoCall
    /\ codepoints \in RangeInputs
    /\ rangeString = Null
    /\ config = Null
    /\ subsets = Null
    /\ warnings = <<>>
    /\ variantList = Null
    /\ cssCall = Null
    /\ css = Null

CallCodepointsToRangeString ==
    /\ pc = "range:call"
    /\ rangeString' = codepointsToRangeString(codepoints)
    /\ pc' = "range:returned"
    /\ UNCHANGED <<codepoints, config, subsets, warnings, variantList, cssCall, css, callArgs, callResult, buildVars>>

NextRange == CallCodepointsToRangeString

SpecRange == InitRange /\ [][NextRange]_vars

(***************************************************************************)
(* Reading a unicode-range string back: the grammar of spec section 6,     *)
(* "U+<HEX>" or "U+<HEX>-<HEX>" joined by ", ".                            *)
(***************************************************************************)
HexDigitValue(c) ==
    IF \E d \in 1 .. 16 : HexDigits[d] = c
    THEN (CHOOSE d \in 1 .. 16 : HexDigits[d] = c) - 1
    ELSE -1

RECURSIVE HexValue(_)
\* the number a string of uppercase hex digits denotes, -1 if it is none
HexValue(str) ==
    IF str = "" THEN -1
    ELSE LET d == HexDigitValue(CharAt(str, Len(str)))
         IN IF d < 0 THEN -1
            ELSE IF Len(str) = 1 THEN d
            ELSE LET hi == HexValue(SubSeq(str, 1, Len(str) - 1))
                 IN IF hi < 0 THEN -1 ELSE 16 * hi + d

RECURSIVE SplitCommaSpace(_)
SplitCommaSpace(str) ==
    IF str = "" THEN <<>>
    ELSE LET k == IndexOfChar(str, ",")
         IN IF k = 0 THEN <<str>>
            ELSE <<SubSeq(str, 1, k - 1)>> \o SplitCommaSpace(SubSeq(str, k + 2, Len(str)))

\* one entry read back: its bounds (-1 where malformed) and how it was written
ReadRange(entry) ==
    LET body == SubSeq(entry, 3, Len(entry))
        dash == IndexOfChar(body, "-")
        lo == IF dash = 0 THEN body ELSE SubSeq(body, 1, dash - 1)
        hi == IF dash = 0 THEN body ELSE SubSeq(body, dash + 1, Len(body))
        canonical(h) == Len(h) = 1 \/ CharAt(h, 1) # "0"
    IN [lo |-> HexValue(lo), hi |-> HexValue(hi), single |-> dash = 0,
        wellFormed |-> /\ Len(entry) >= 3
                       /\ SubSeq(entry, 1, 2) = "U+"
                       /\ HexValue(lo) >= 0 /\ HexValue(hi) >= 0
                       /\ canonical(lo) /\ canonical(hi)]

ReadRangeString(str) ==
    LET entries == SplitCommaSpace(str)
    IN [i \in 1 .. Len(entries) |-> ReadRange(entries[i])]

\* the rearrangements that generate every permutation and duplication
Rearrangements(s) ==
    {[i \in 1 .. Len(s) |-> IF i = k THEN s[k + 1] ELSE IF i = k + 1 THEN s[k] ELSE s[i]] :
        k \in 1 .. (Len(s) - 1)}
    \cup {s \o <<s[k]>> : k \in 1 .. Len(s)}
    \cup {SubSeq(s, 1, k - 1) \o SubSeq(s, k + 1, Len(s)) :
            k \in {i \in 1 .. Len(s) : \E j \in 1 .. Len(s) : j # i /\ s[j] = s[i]}}

\* C10: codepointsToRangeString depends only on the set of input codepoints
\* (swapping two neighbours, repeating an element or dropping a repeated one
\* gives the same string), and the string read back is the ascending list of
\* the set's maximal contiguous runs: well-formed entries, pairwise disjoint
\* and non-adjacent, a run of one codepoint written as a single value and
\* only such a run, the union of the runs the input set exactly; the empty
\* or undefined input gives the empty string.
RangeStringIsMaximalRuns ==
    pc = "range:returned" =>
        LET input == IF codepoints.defined THEN codepoints.value ELSE <<>>
            runs == ReadRangeString(rangeString)
        IN /\ (input = <<>>) <=> (rangeString = "")
           /\ \A i \in 1 .. Len(runs) :
                  /\ runs[i].wellFormed
                  /\ runs[i].lo <= runs[i].hi
                  /\ runs[i].single <=> (runs[i].lo = runs[i].hi)
           /\ \A i \in 1 .. (Len(runs) - 1) : runs[i + 1].lo > runs[i].hi + 1
           /\ UNION {runs[i].lo .. runs[i].hi : i \in 1 .. Len(runs)} = Elems(input)
           /\ \A t \in Rearrangements(input) :
                  codepointsToRangeString(Some(t)) = rangeString

\* C10 witness: an unsorted input with a repeated codepoint was rendered as
\* a run of several codepoints followed by a single one.
RangeStringWitness ==
    /\ pc = "range:returned"
    /\ codepoints = Some(<<16, 9, 10, 9>>)
    /\ rangeString = "U+9-A, U+10"

(***************************************************************************)
(* SpecSubsets: generateSubsetData applied to bounded configs.  One family *)
(* of configs requests a single subset whose source is any sequence of     *)
(* block-open, codepoints and block-close lines; the other requests up to  *)
(* MaxSubsetNames subsets whose sources are missing, empty, flat lists and *)
(* slicing strategies (the sources of tests/subsets.test.ts among them).   *)
(***************************************************************************)
SlicingLines == {"subsets {", "  codepoints: 12353", "  codepoints: 65", "}"}

SlicingSources == {Join(ls, "\n") : ls \in SeqsUpTo(SlicingLines, MaxSlicingLines)}

MixedSources ==
    { "",
      "  \n\t\n  ",
      "0x0020 SPACE\n0x0021 EXCLAMATION MARK",
      "0x0041 A # some comment about subsets",
      "0x0042 B\n0x0041 A\n0x0042 B",
      "0x0042 B # listed in subsets { of x\n0x0041 A",
      "subsets {\n  codepoints: 12353\n}",
      "subsets {\n}",
      "SlicingStrategy {\n  subsets {\n    codepoints: 12353\n  }\n  subsets {\n    codepoints: 65\n    codepoints: 66\n  }\n}" }

SubsetNames == {"latin", "japanese", "cyrillic"}

\* the lists of distinct names, at most n long
NameLists(n) ==
    {l \in SeqsUpTo(SubsetNames, n) :
        l # <<>> /\ \A i, j \in 1 .. Len(l) : i # j => l[i] # l[j]}

\* a config as far as generateSubsetData reads it (types.ts:89-100)
SubsetsConfig(names, sources) ==
    [type |-> "static", family |-> "Test Font", subsets |-> names,
     formats |-> <<"woff2">>, subsetSources |-> sources]

SubsetsConfigs ==
    {SubsetsConfig(<<"japanese">>, [n \in {"japanese"} |-> src]) : src \in SlicingSources}
    \cup UNION {UNION {{SubsetsConfig(names, sources) : sources \in [given -> MixedSources]} :
                          given \in SUBSET Elems(names)} :
                   names \in NameLists(MaxSubsetNames)}

InitSubsets ==
    /\ pc = "subsets:call"
    /\ NoBuild
    /\ NoCall
    /\ config \in SubsetsConfigs
    /\ subsets = Null
    /\ warnings = <<>>
    /\ codepoints = Null
    /\ rangeString = Null
    /\ variantList = Null
    /\ cssCall = Null
    /\ css = Null

CallGenerateSubsetData ==
    /\ pc = "subsets:call"
    /\ LET out == generateSubsetData(config)
       IN /\ subsets' = out.subsetData
          /\ warnings' = out.warnings
          /\ pc' = IF out.threw THEN "subsets:threw" ELSE "subsets:returned"
    /\ UNCHANGED <<config, codepoints, rangeString, variantList, cssCall, css, callArgs, callResult, buildVars>>

NextSubsets == CallGenerateSubsetData

SpecSubsets == InitSubsets /\ [][NextSubsets]_vars

(***************************************************************************)
(* The blocks of a slicing-strategy source text, read off the text: a      *)
(* block opens at a "subsets {" line and runs to the first "}" line after  *)
(* it, or to the next "subsets {" line or the end of the text where no "}" *)
(* comes first.                                                            *)
(***************************************************************************)
TrimmedLines(src) ==
    LET ls == Split(src, "\n") IN [i \in 1 .. Len(ls) |-> Trim(ls[i])]

IsCodepointsLine(line) == StartsWith(line, "codepoints: ")

RECURSIVE CodepointsBetween(_, _, _)
\* the numbers of the codepoints lines among ls[lo .. hi]
CodepointsBetween(ls, lo, hi) ==
    IF lo > hi THEN <<>>
    ELSE (IF IsCodepointsLine(ls[lo])
          THEN <<parseInt(SubSeq(ls[lo], 13, Len(ls[lo])), 10)>>
          ELSE <<>>) \o CodepointsBetween(ls, lo + 1, hi)

\* per block, in order of appearance: its codepoints, whether a "}" closes
\* it, and the codepoints lines between that "}" and the next block
SourceBlocks(src) ==
    LET ls == TrimmedLines(src)
        opens == {i \in 1 .. Len(ls) : ls[i] = "subsets {"}
        openAt(k) == CHOOSE p \in opens : Cardinality({q \in opens : q < p}) = k - 1
        block(k) ==
            LET from == openAt(k)
                to == IF k < Cardinality(opens) THEN openAt(k + 1) - 1 ELSE Len(ls)
                closes == {i \in (from + 1) .. to : ls[i] = "}"}
                close == IF closes = {} THEN to + 1
                         ELSE CHOOSE i \in closes : \A j \in closes : i <= j
            IN [codepoints |-> CodepointsBetween(ls, from + 1, close - 1),
                closed |-> closes # {},
                stray |-> CodepointsBetween(ls, close + 1, to)]
    IN [k \in 1 .. Cardinality(opens) |-> block(k)]

\* the sliced definitions of the returned map with their source texts
SlicedResults ==
    {[def |-> subsets[i].value, src |-> config.subsetSources[subsets[i].key]] :
        i \in {j \in 1 .. Len(subsets) : subsets[j].value.type = "sliced"}}

SliceIndicesDense(def) ==
    \A k \in 1 .. Len(def.slices) : def.slices[k].index = k

SlicesAreBlocksReversed(def, blocks) ==
    \A k \in 1 .. Len(def.slices) :
        /\ k <= Len(blocks)
        /\ def.slices[k].codepoints = blocks[Len(blocks) + 1 - k].codepoints

\* C7 as stated: for every slicing-strategy source the slices carry the
\* indices 1..N without gap or repeat, and the slice with index k holds the
\* codepoints of the k-th block counted from the end of the source text.
SlicesReverseEveryBlock ==
    pc = "subsets:returned" =>
        \A r \in SlicedResults :
            /\ SliceIndicesDense(r.def)
            /\ SlicesAreBlocksReversed(r.def, SourceBlocks(r.src))

\* the last block holds a codepoint and is closed, and no codepoints line
\* follows the "}" of an empty block before the next block opens
LastBlockKeptNoStray(blocks) ==
    /\ blocks # <<>> =>
           blocks[Len(blocks)].closed /\ blocks[Len(blocks)].codepoints # <<>>
    /\ \A k \in 1 .. Len(blocks) :
           blocks[k].codepoints = <<>> => blocks[k].stray = <<>>

\* C7 amended: the indices are 1..N without gap or repeat for every
\* slicing-strategy source; and for every source whose last block is closed
\* holding at least one codepoint, and in which no codepoints line follows
\* the "}" of an empty block, there is one slice per block and the slice
\* with index k holds the codepoints of the k-th block from the end.
SlicesReverseKeptBlocks ==
    pc = "subsets:returned" =>
        \A r \in SlicedResults :
            /\ SliceIndicesDense(r.def)
            /\ LastBlockKeptNoStray(SourceBlocks(r.src)) =>
                   /\ Len(r.def.slices) = Len(SourceBlocks(r.src))
                   /\ SlicesAreBlocksReversed(r.def, SourceBlocks(r.src))

\* C7 witness: a source of two closed blocks with different codepoints was
\* loaded, and slice 1 holds the codepoints of the block that comes last.
SlicesReverseWitness ==
    /\ pc = "subsets:returned"
    /\ config.subsets = <<"japanese">>
    /\ DOMAIN config.subsetSources = {"japanese"}
    /\ config.subsetSources["japanese"] =
           "subsets {\n  codepoints: 12353\n}\nsubsets {\n  codepoints: 65\n}"
    /\ MapGet(subsets, "japanese").value.slices =
           <<[index |-> 1, codepoints |-> <<65>>], [index |-> 2, codepoints |-> <<12353>>]>>

\* the range definitions of the returned map with their source texts
RangeResults ==
    {[def |-> subsets[i].value, src |-> config.subsetSources[subsets[i].key]] :
        i \in {j \in 1 .. Len(subsets) : subsets[j].value.type = "range"}}

\* C16: every range definition's codepoints are sorted ascending without
\* duplicates, and its unicodeRange is codepointsToRangeString of the list,
\* the empty string when the source has no codepoint line.
RangeCodepointsSortedUnique ==
    pc = "subsets:returned" =>
        \A r \in RangeResults :
            /\ \A i, j \in 1 .. Len(r.def.codepoints) :
                   i < j => r.def.codepoints[i] < r.def.codepoints[j]
            /\ r.def.unicodeRange = codepointsToRangeString(Some(r.def.codepoints))
            /\ (\A i \in 1 .. Len(TrimmedLines(r.src)) :
                    ~StartsWith(TrimmedLines(r.src)[i], "0x")) => r.def.unicodeRange = ""

\* C17: every slice of a sliced definition holds at least one codepoint, and
\* a source whose blocks are all empty yields no slice.
NoEmptySlice ==
    pc = "subsets:returned" =>
        \A r \in SlicedResults :
            /\ \A k \in 1 .. Len(r.def.slices) : r.def.slices[k].codepoints # <<>>
            /\ (\A b \in 1 .. Len(SourceBlocks(r.src)) :
                    SourceBlocks(r.src)[b].codepoints = <<>>) => r.def.slices = <<>>

\* the codepoint lists of the slices of a definition, by index
SliceCodepoints(def) == [k \in 1 .. Len(def.slices) |-> def.slices[k].codepoints]

\* the codepoint lists of the blocks at the positions kept, last block first
BlocksKept(blocks, kept) ==
    LET ks == SelectSeq([k \in 1 .. Len(blocks) |-> k], LAMBDA k : k \in kept)
    IN Reverse([i \in 1 .. Len(ks) |-> blocks[ks[i]].codepoints])

\* no codepoints line stands between the "}" of a block and the next block
NoStrayCodepoints(blocks) == \A k \in 1 .. Len(blocks) : blocks[k].stray = <<>>

\* C24 as stated: a block that receives codepoints and has no "}" before
\* the next block or the end of the text contributes no slice, and a block
\* closed with zero codepoints is emitted as an empty slice (for the texts
\* in which every unclosed block holds a codepoint and no codepoints line
\* follows a "}").
UnclosedDroppedEmptyEmitted ==
    pc = "subsets:returned" =>
        \A r \in SlicedResults :
            LET blocks == SourceBlocks(r.src)
            IN (/\ NoStrayCodepoints(blocks)
                /\ \A k \in 1 .. Len(blocks) :
                       blocks[k].closed \/ blocks[k].codepoints # <<>>)
               => SliceCodepoints(r.def)
                      = BlocksKept(blocks, {k \in 1 .. Len(blocks) : blocks[k].closed})

\* C24, amended: in a text in which no codepoints line follows a "}", every
\* block before the last contributes a slice of the codepoints it received,
\* closed or not and empty or not, and the last block contributes a slice
\* only if it is closed and holds a codepoint: an unclosed block is dropped
\* only at the end of the text, and a block closed with zero codepoints is
\* an empty slice only when another block follows.
OnlyLastBlockDropped ==
    pc = "subsets:returned" =>
        \A r \in SlicedResults :
            LET blocks == SourceBlocks(r.src)
            IN NoStrayCodepoints(blocks)
               => SliceCodepoints(r.def)
                      = BlocksKept(blocks,
                            {k \in 1 .. Len(blocks) :
                                \/ k < Len(blocks)
                                \/ blocks[k].closed /\ blocks[k].codepoints # <<>>})

\* C24 witness: an unclosed block of one codepoint followed by a closed
\* empty block gives the one slice of the unclosed block.
OnlyLastBlockDroppedWitness ==
    /\ pc = "subsets:returned"
    /\ config.subsets = <<"japanese">>
    /\ DOMAIN config.subsetSources = {"japanese"}
    /\ config.subsetSources["japanese"] = "subsets {\n  codepoints: 65\nsubsets {\n}"
    /\ MapGet(subsets, "japanese").value.slices = <<[index |-> 1, codepoints |-> <<65>>]>>

\* the requested names whose source text the config supplies, non-empty
NamesWithSource(cfg) ==
    {n \in Elems(cfg.subsets) : n \in DOMAIN cfg.subsetSources /\ cfg.subsetSources[n] # ""}

\* C8: generateSubsetData never throws; its result holds an entry for a
\* requested name exactly when the config supplies non-empty source text for
\* that name; every other requested name is warned about, once; and the
\* entry of a name is the one produced when that name is requested alone.
MissingSourceOmittedOnly ==
    pc # "subsets:threw" /\
    (pc = "subsets:returned" =>
        /\ MapKeys(subsets) = NamesWithSource(config)
        /\ Len(subsets) = Cardinality(NamesWithSource(config))
        /\ Len(warnings) = Len(config.subsets) - Cardinality(NamesWithSource(config))
        /\ \A n \in Elems(config.subsets) \ NamesWithSource(config) :
               \E i \in 1 .. Len(warnings) : EndsWith(warnings[i], " for " \o n)
        /\ \A n \in NamesWithSource(config) :
               <<[key |-> n, value |-> MapGet(subsets, n).value]>> =
                   generateSubsetData([config EXCEPT !.subsets = <<n>>]).subsetData)

\* C8 witness: of two requested names one has no source and the other a flat
\* list; the call returned the entry of the second and warned about the first.
MissingSourceWitness ==
    /\ pc = "subsets:returned"
    /\ config.subsets = <<"cyrillic", "latin">>
    /\ DOMAIN config.subsetSources = {"latin"}
    /\ config.subsetSources["latin"] = "0x0020 SPACE\n0x0021 EXCLAMATION MARK"
    /\ MapKeys(subsets) = {"latin"}
    /\ MapGet(subsets, "latin").value.codepoints = <<32, 33>>
    /\ warnings = <<"WARN: No subset file content provided for cyrillic">>

\* the lines of a source text that a flat list counts as codepoint lines
NamLineCount(src) ==
    Cardinality({i \in 1 .. Len(TrimmedLines(src)) : StartsWith(TrimmedLines(src)[i], "0x")})

\* C9: a subset's definition is 'sliced' exactly when its source text
\* contains the literal marker "subsets {", and otherwise 'range' with one
\* codepoint per codepoint line of the text; a flat list that mentions the
\* word "subsets" in a comment is 'range' with all its codepoints.
FormatDetectedByMarker ==
    pc = "subsets:returned" =>
        \A i \in 1 .. Len(subsets) :
            LET def == subsets[i].value
                src == config.subsetSources[subsets[i].key]
            IN /\ def.type \in {"sliced", "range"}
               /\ (def.type = "sliced") <=> Includes(src, "subsets {")
               /\ def.type = "range" => Len(def.codepoints) = NamLineCount(src)
               /\ src = "0x0041 A # some comment about subsets" =>
                      /\ def.type = "range"
                      /\ def.codepoints = <<65>>
                      /\ def.unicodeRange = "U+41"

\* C9 witness: a flat list whose comment mentions the word "subsets" and a
\* slicing strategy were loaded together, as 'range' and as 'sliced'.
FormatDetectedWitness ==
    /\ pc = "subsets:returned"
    /\ config.subsets = <<"latin", "japanese">>
    /\ DOMAIN config.subsetSources = {"latin", "japanese"}
    /\ config.subsetSources["latin"] = "0x0041 A # some comment about subsets"
    /\ config.subsetSources["japanese"] = "subsets {\n  codepoints: 12353\n}"
    /\ MapGet(subsets, "latin").value.type = "range"
    /\ MapGet(subsets, "japanese").value.type = "sliced"

(***************************************************************************)
(* SpecCss: generateStaticCSS and generateVariableCSS applied to bounded   *)
(* lists of variants (those of the css tests: two formats, two weights,    *)
(* normal, italic and oblique faces, a range and a sliced subset, a subset *)
(* without definition, static and variable variants).                      *)
(***************************************************************************)
CssFamily == "Test Font"

CssSubsetMap ==
    generateSubsetData(
        SubsetsConfig(<<"latin", "japanese", "cyrillic", "greek">>,
            [n \in {"latin", "japanese", "greek"} |->
                IF n = "latin" THEN "0x0020 SPACE\n0x0021 EXCLAMATION MARK"
                ELSE IF n = "greek" THEN "  \n\t\n  "
                ELSE "subsets {\n  codepoints: 12353\n}\nsubsets {\n  codepoints: 65\n  codepoints: 66\n}"])
    ).subsetData

CssWghtOnly == <<[key |-> "wght", value |-> [min |-> 100, max |-> 900]]>>

CssVariantPool ==
    LET id == normalizeKebabCase(CssFamily)
    IN { StaticVariant(id, "latin", 0, 400, "normal", "woff2", <<>>),
         StaticVariant(id, "latin", 0, 400, "normal", "woff", <<>>),
         StaticVariant(id, "latin", 0, 400, "italic", "woff2", <<>>),
         StaticVariant(id, "latin", 0, 400, "oblique 10deg", "woff2", <<>>),
         StaticVariant(id, "latin", 0, 700, "normal", "woff2", <<>>),
         StaticVariant(id, "japanese", 1, 400, "normal", "woff2", <<>>),
         StaticVariant(id, "japanese", 3, 400, "normal", "woff2", <<>>),
         StaticVariant(id, "cyrillic", 0, 400, "normal", "woff2", <<>>),
         StaticVariant(id, "greek", 0, 400, "normal", "woff2", <<>>),
         VariableVariant(id, "latin", 0, 400, "normal", "woff2", <<>>, CssWghtOnly, "wght"),
         VariableVariant(id, "japanese", 1, 400, "normal", "woff2", <<>>, CssWghtOnly, "wght") }

CssCalls == [weight : {400, 700, 900}, style : {"normal", "italic", "oblique 10deg"}]

InitCss ==
    /\ pc = "css:call"
    /\ NoBuild
    /\ NoCall
    /\ variantList \in SeqsUpTo(CssVariantPool, MaxVariants)
    /\ cssCall \in CssCalls
    /\ subsets = CssSubsetMap
    /\ css = Null
    /\ config = Null
    /\ warnings = <<>>
    /\ codepoints = Null
    /\ rangeString = Null

CallGenerateStaticCSS ==
    /\ pc = "css:call"
    /\ css' = generateStaticCSS(CssFamily, cssCall.weight, cssCall.style, variantList, subsets)
    /\ pc' = "css:static"
    /\ UNCHANGED <<variantList, cssCall, subsets, config, warnings, codepoints, rangeString, callArgs, callResult, buildVars>>

CallGenerateVariableCSS ==
    /\ pc = "css:call"
    /\ css' = generateVariableCSS(CssFamily, variantList, subsets)
    /\ pc' = "css:variable"
    /\ UNCHANGED <<variantList, cssCall, subsets, config, warnings, codepoints, rangeString, callArgs, callResult, buildVars>>

NextCss == CallGenerateStaticCSS \/ CallGenerateVariableCSS

SpecCss == InitCss /\ [][NextCss]_vars

\* the urls of the src entries of a style sheet, over all its blocks
SrcUrls(sheet) ==
    {sheet[b].src[e].url : <<b, e>> \in
        {<<b, e>> \in (1 .. Len(sheet)) \X (1 .. MaxVariants + 1) : e <= Len(sheet[b].src)}}

SrcEntryCount(sheet) ==
    Cardinality({<<b, e>> \in (1 .. Len(sheet)) \X (1 .. MaxVariants + 1) :
                    e <= Len(sheet[b].src)})

\* C6: generateStaticCSS(family, w, s, variants, subsets) is built from the
\* static variants of weight w and style s only: it is the sheet those
\* variants alone give, it has at most one src entry per such variant, each
\* the file of such a variant, and it is empty when there is none;
\* generateVariableCSS likewise uses the variants of type 'variable' only.
CssUsesMatchingVariantsOnly ==
    /\ pc = "css:static" =>
        LET kept == SelectSeq(variantList, LAMBDA v :
                        v.type = "static" /\ v.weight = cssCall.weight
                        /\ v.style = cssCall.style)
        IN /\ css = generateCSS(CssFamily, kept, subsets)
           /\ SrcEntryCount(css) <= Len(kept)
           /\ SrcUrls(css) \subseteq {"./files/" \o kept[i].filename : i \in 1 .. Len(kept)}
           /\ kept = <<>> => css = <<>>
    /\ pc = "css:variable" =>
        LET kept == SelectSeq(variantList, LAMBDA v : v.type = "variable")
        IN /\ css = generateCSS(CssFamily, kept, subsets)
           /\ SrcEntryCount(css) <= Len(kept)
           /\ SrcUrls(css) \subseteq {"./files/" \o kept[i].filename : i \in 1 .. Len(kept)}
           /\ kept = <<>> => css = <<>>

\* C6 witness: asked for weight 400 italic among an italic, a normal and a
\* variable variant of the same subset, generateStaticCSS returned one block
\* with the italic file as its only src entry.
CssMatchingWitness ==
    /\ pc = "css:static"
    /\ cssCall = [weight |-> 400, style |-> "italic"]
    /\ Len(variantList) = 3
    /\ variantList[1].type = "static" /\ variantList[1].style = "normal" /\ variantList[1].weight = 400
    /\ variantList[2].type = "static" /\ variantList[2].style = "italic" /\ variantList[2].weight = 400
    /\ variantList[3].type = "variable"
    /\ Len(css) = 1
    /\ css[1].src = <<[url |-> "./files/test-font-latin-400-italic.woff2", format |-> "woff2"]>>

\* the variants a generator call keeps
KeptVariants ==
    IF pc = "css:static"
    THEN SelectSeq(variantList, LAMBDA v : v.type = "static" /\ v.weight = cssCall.weight
                                           /\ v.style = cssCall.style)
    ELSE SelectSeq(variantList, LAMBDA v : v.type = "variable")

\* the distinct (subset, sliceIndex) pairs of the variants, by first occurrence
KeysInOrder(kept) ==
    LET firsts == SelectSeq([i \in 1 .. Len(kept) |-> i],
                            LAMBDA i : \A j \in 1 .. (i - 1) :
                                <<kept[j].subset, kept[j].sliceIndex>>
                                    # <<kept[i].subset, kept[i].sliceIndex>>)
    IN [k \in 1 .. Len(firsts) |-> <<kept[firsts[k]].subset, kept[firsts[k]].sliceIndex>>]

\* the unicode range of a key: of its subset, or of the slice of its index
KeyRange(key) ==
    LET def == MapGet(subsets, key[1])
    IN IF ~def.defined THEN ""
       ELSE IF def.value.type = "range" THEN def.value.unicodeRange
       ELSE LET found == {k \in 1 .. Len(def.value.slices) : def.value.slices[k].index = key[2]}
            IN IF found = {} THEN ""
               ELSE codepointsToRangeString(
                        Some(def.value.slices[CHOOSE k \in found : TRUE].codepoints))

\* C12: the sheet holds one block per distinct (subset, sliceIndex) key of
\* the kept variants, in the order of the keys' first occurrence, each with
\* the files of the key's variants and the key's range; a key whose subset
\* has no definition, whose range string is empty or whose slice is missing
\* has no block.
OneBlockPerVisibleKey ==
    pc \in {"css:static", "css:variable"} =>
        LET kept == KeptVariants
            visible == SelectSeq(KeysInOrder(kept), LAMBDA key : KeyRange(key) # "")
        IN /\ Len(css) = Len(visible)
           /\ \A b \in 1 .. Len(visible) :
                  LET group == SelectSeq(kept, LAMBDA v :
                                   <<v.subset, v.sliceIndex>> = visible[b])
                  IN /\ css[b].unicodeRange = KeyRange(visible[b])
                     /\ [e \in 1 .. Len(css[b].src) |-> css[b].src[e].url]
                          = [e \in 1 .. Len(group) |-> "./files/" \o group[e].filename]

\* C12 witness: of three kept variants, the first and third share the key
\* (latin, 0) and the second has a slice index the subset lacks: the sheet is
\* the one block of the two latin files.
OneBlockWitness ==
    /\ pc = "css:static"
    /\ cssCall = [weight |-> 400, style |-> "normal"]
    /\ Len(variantList) = 3
    /\ variantList[1].subset = "latin" /\ variantList[1].filename = "test-font-latin-400-normal.woff2"
    /\ variantList[2].subset = "japanese" /\ variantList[2].sliceIndex = 3
    /\ variantList[3].subset = "latin" /\ variantList[3].filename = "test-font-latin-400-normal.woff"
    /\ Len(css) = 1
    /\ Len(css[1].src) = 2

(***************************************************************************)
(* Spec: buildFont.  loadFonts, font.subset and compressFromTTF are calls  *)
(* into other packages: each returns or throws, and the jobs mapConcur has *)
(* started settle in any order.                                            *)
(***************************************************************************)
SingleStyle(v) == [type |-> "single", value |-> v]

VariableStyle(min, defaultValue, max) ==
    [type |-> "variable", value |-> [min |-> min, defaultValue |-> defaultValue, max |-> max]]

\* a FontRef, as far as buildFont reads it
FontRefOf(weight, italic, slant) ==
    [styleValues |-> [weight |-> weight, italic |-> SingleStyle(italic),
                      slant |-> SingleStyle(slant), width |-> SingleStyle(100)]]

\* a FontRef with its style values and the variation axes it declares
\* besides them, each a tag with min, defaultValue and max
FontRefWithAxes(weight, width, slant, axes) ==
    [styleValues |-> [weight |-> weight, italic |-> SingleStyle(0),
                      slant |-> slant, width |-> width],
     axes |-> axes]

Regular400 == FontRefOf(SingleStyle(400), 0, 0)
Bold700 == FontRefOf(SingleStyle(700), 0, 0)
Italic400 == FontRefOf(SingleStyle(400), 1, 0)
Oblique400 == FontRefOf(SingleStyle(400), 0, -10)
VarWght == FontRefOf(VariableStyle(300, 400, 500), 0, 0)

\* the font lists a build is started with, one after the other
FontLists ==
    << <<>>, <<Regular400>>, <<Bold700>>, <<Italic400>>, <<VarWght>>,
       <<Regular400, Bold700>>, <<Bold700, Regular400>>, <<Regular400, Italic400>>,
       <<Regular400, Regular400>>, <<Italic400, Oblique400>> >>

\* the subsets, their sources and the formats of a configuration
BuildSubsets ==
    { [subsets |-> <<"latin">>, formats |-> f,
       subsetSources |-> [n \in {"latin"} |-> "0x0020 SPACE\n0x0021 EXCLAMATION MARK"]] :
         f \in {<<"woff2">>, <<"woff2", "woff">>} }
    \cup
    { [subsets |-> <<"japanese">>, formats |-> <<"woff2">>,
       subsetSources |-> [n \in {"japanese"} |->
          "subsets {\n  codepoints: 12353\n}\nsubsets {\n  codepoints: 65\n  codepoints: 66\n}"]],
      [subsets |-> <<"latin", "cyrillic">>, formats |-> <<"woff2">>,
       subsetSources |-> [n \in {"latin"} |-> "0x0041 A"]],
      [subsets |-> <<"cyrillic">>, formats |-> <<"woff2">>,
       subsetSources |-> [n \in {"cyrillic"} |-> ""]],
      [subsets |-> <<"greek">>, formats |-> <<"woff2">>,
       subsetSources |-> [n \in {"greek"} |-> "  \n\t\n  "]] }

\* the optional weights and styles of a static configuration
BuildTargets ==
    { [weights |-> Undefined, styles |-> Undefined],
      [weights |-> Undefined, styles |-> Some(<<"normal">>)],
      [weights |-> Some(<<400>>), styles |-> Undefined],
      [weights |-> Some(<<300, 500>>), styles |-> Undefined],
      [weights |-> Some(<<400, 700>>), styles |-> Some(<<"normal">>)] }

StaticConfigs ==
    { [type |-> "static", family |-> "Test Font", subsets |-> s.subsets,
       subsetSources |-> s.subsetSources, formats |-> s.formats,
       weights |-> t.weights, styles |-> t.styles] :
         s \in BuildSubsets, t \in BuildTargets }

VariableConfigs ==
    { [type |-> "variable", family |-> "Test Font", subsets |-> s.subsets,
       subsetSources |-> s.subsetSources, formats |-> s.formats,
       variable |-> v, axisKey |-> Undefined] :
         s \in BuildSubsets,
         v \in { <<[key |-> "wght", value |-> [min |-> 300, max |-> 500]]>>,
                 <<[key |-> "wght", value |-> [min |-> 300, max |-> 500]],
                   [key |-> "wdth", value |-> [min |-> 75, max |-> 100]]>> } }

BuildConfigs == StaticConfigs \cup VariableConfigs

Init ==
    /\ pc = "build:loading"
    /\ config \in BuildConfigs
    /\ \E i \in DOMAIN FontLists : fontBuffers = FontLists[i]
    /\ Len(PlanJobs(fontBuffers, config, generateSubsetData(config).subsetData)) <= MaxJobs
    /\ loadFonts = "pending"
    /\ fontRefs = <<>>
    /\ subsets = <<>>
    /\ warnings = <<>>
    /\ allProcessingJobs = <<>>
    /\ jobState = <<>>
    /\ jobResults = <<>>
    /\ allVariants = <<>>
    /\ package = Undefined
    /\ NoCall
    /\ codepoints = Null
    /\ rangeString = Null
    /\ variantList = Null
    /\ cssCall = Null
    /\ css = Null

\* processor.ts:414: the awaited loadFonts throws, and buildFont with it
LoadFontsThrows ==
    /\ pc = "build:loading"
    /\ loadFonts' = "threw"
    /\ pc' = "build:rejected"
    /\ UNCHANGED <<config, subsets, warnings, pureVars, fontBuffers, fontRefs,
                   allProcessingJobs, jobState, jobResults, allVariants, package>>

\* processor.ts:414-515: loadFonts returns, the jobs are planned and
\* mapConcur starts processJob on every one of them
LoadFontsReturns ==
    /\ pc = "build:loading"
    /\ loadFonts' = "returned"
    /\ fontRefs' = fontBuffers
    /\ LET subsetData == generateSubsetData(config)
       IN IF subsetData.threw
          THEN /\ pc' = "build:rejected"
               /\ UNCHANGED <<subsets, warnings, allProcessingJobs, jobState>>
          ELSE /\ pc' = "build:running"
               /\ subsets' = subsetData.subsetData
               /\ warnings' = subsetData.warnings
               /\ allProcessingJobs' = PlanJobs(fontBuffers, config, subsetData.subsetData)
               /\ jobState' = [j \in 1 .. Len(allProcessingJobs') |-> "subsetting"]
    /\ UNCHANGED <<config, pureVars, fontBuffers, jobResults, allVariants, package>>

\* processor.ts:500-507: what processJob does with an error of processSlice
JobFails(j) ==
    LET caught == CatchJobError(allProcessingJobs[j])
    IN IF caught.rejects
       THEN /\ pc' = "build:rejected"
            /\ UNCHANGED <<warnings, jobState, jobResults>>
       ELSE /\ warnings' = warnings \o caught.warning
            /\ jobState' = [jobState EXCEPT ![j] = "failed"]
            /\ jobResults' = Append(jobResults, caught.result)
            /\ UNCHANGED pc

\* processor.ts:236-240, font.subset returning with the job's codepoint
\* list emptied
SubsetReturnsEmptyingCodepoints(j) ==
    /\ pc = "build:running"
    /\ jobState[j] = "subsetting"
    /\ jobState' = [jobState EXCEPT ![j] = "compressing"]
    /\ allProcessingJobs' = [allProcessingJobs EXCEPT ![j].codepoints = <<>>]
    /\ UNCHANGED <<pc, config, subsets, warnings, pureVars, fontBuffers, loadFonts, fontRefs,
                   jobResults, allVariants, package>>

\* processor.ts:236-240: font.subset returns
SubsetReturns(j) ==
    /\ pc = "build:running"
    /\ jobState[j] = "subsetting"
    /\ jobState' = [jobState EXCEPT ![j] = "compressing"]
    /\ UNCHANGED <<pc, config, subsets, warnings, pureVars, fontBuffers, loadFonts, fontRefs,
                   allProcessingJobs, jobResults, allVariants, package>>

\* processor.ts:236-240: font.subset throws
SubsetThrows(j) ==
    /\ pc = "build:running"
    /\ jobState[j] = "subsetting"
    /\ JobFails(j)
    /\ UNCHANGED <<config, subsets, pureVars, fontBuffers, loadFonts, fontRefs,
                   allProcessingJobs, allVariants, package>>

\* processor.ts:242-284: compressFromTTF returns and the job yields its variant
CompressReturns(j) ==
    /\ pc = "build:running"
    /\ jobState[j] = "compressing"
    /\ jobState' = [jobState EXCEPT ![j] = "done"]
    /\ jobResults' = Append(jobResults,
                            Some(processSlice(normalizeKebabCase(config.family), fontRefs,
                                              allProcessingJobs[j])))
    /\ UNCHANGED <<pc, config, subsets, warnings, pureVars, fontBuffers, loadFonts, fontRefs,
                   allProcessingJobs, allVariants, package>>

\* processor.ts:242-246: compressFromTTF throws
CompressThrows(j) ==
    /\ pc = "build:running"
    /\ jobState[j] = "compressing"
    /\ JobFails(j)
    /\ UNCHANGED <<config, subsets, pureVars, fontBuffers, loadFonts, fontRefs,
                   allProcessingJobs, allVariants, package>>

\* processor.ts:510-530: the pipe resolves, the package is assembled
Resolve ==
    /\ pc = "build:running"
    /\ AllJobsSettled(jobState)
    /\ allVariants' = NonNullVariants(jobResults)
    /\ package' = Some(PackageOf(config, fontRefs, subsets, jobResults))
    /\ pc' = "build:resolved"
    /\ UNCHANGED <<config, subsets, warnings, pureVars, fontBuffers, loadFonts, fontRefs,
                   allProcessingJobs, jobState, jobResults>>

Next ==
    \/ LoadFontsThrows
    \/ LoadFontsReturns
    \/ \E j \in 1 .. MaxJobs + 1 :
           /\ j \in DOMAIN jobState
           /\ \/ SubsetReturns(j)
              \/ SubsetThrows(j)
              \/ CompressReturns(j)
              \/ CompressThrows(j)
    \/ Resolve

Spec == Init /\ [][Next]_vars

\* the pending call of job j returns or throws
JobAdvances(j) ==
    /\ pc = "build:running"
    /\ j \in DOMAIN jobState
    /\ jobState[j] \in {"subsetting", "compressing"}
    /\ jobState' \in {[jobState EXCEPT ![j] = next] : next \in {"compressing", "done", "failed"}}

\* the continuation of the awaited pipe runs
BuildResolves ==
    /\ pc = "build:running"
    /\ AllJobsSettled(jobState)
    /\ pc' = "build:resolved"

\* every call of a job that was started returns or throws, and the
\* continuation of the awaited pipe runs once the pipe has resolved
FairSpec ==
    /\ Spec
    /\ \A j \in 1 .. MaxJobs + 1 : WF_jobState(JobAdvances(j))
    /\ WF_pc(BuildResolves)

(***************************************************************************)
(* Properties of buildFont                                                 *)
(***************************************************************************)
\* the variant a job yields when its two calls return
ExpectedVariant(j) ==
    processSlice(normalizeKebabCase(config.family), fontRefs, allProcessingJobs[j])

JobsIn(state) == {j \in DOMAIN jobState : jobState[j] = state}

\* the file urls of the jobs that yielded a variant, in plan order
PlannedUrls ==
    LET done == SelectSeq([j \in 1 .. Len(allProcessingJobs) |-> j],
                          LAMBDA j : jobState[j] = "done")
    IN [i \in 1 .. Len(done) |-> "./files/" \o ExpectedVariant(done[i]).filename]

BlockUrls(block) == [e \in 1 .. Len(block.src) |-> block.src[e].url]

\* C1 as stated: in every @font-face block of every emitted style sheet the
\* src entries stand in the order in which their jobs were planned, whatever
\* the order in which the jobs completed.
SrcFollowsPlanOrder ==
    pc = "build:resolved" =>
        \A a \in 1 .. Len(package.value.css) :
            \A b \in 1 .. Len(package.value.css[a].content) :
                LET urls == BlockUrls(package.value.css[a].content[b])
                IN urls = SelectSeq(PlannedUrls, LAMBDA u : Contains(urls, u))

\* C2: when buildFont resolves, its variant list holds no variant of a job
\* whose subsetting or compression threw, and for every other job exactly
\* the variant that job yields when nothing fails, once each.
FailedJobsLeaveSiblingsIntact ==
    pc = "build:resolved" =>
        /\ Len(allVariants) = Cardinality(JobsIn("done"))
        /\ \A j \in JobsIn("done") :
               Cardinality({i \in 1 .. Len(allVariants) : allVariants[i] = ExpectedVariant(j)}) = 1
        /\ \A i \in 1 .. Len(allVariants) :
               \E j \in JobsIn("done") : allVariants[i] = ExpectedVariant(j)
        /\ JobsIn("done") \cup JobsIn("failed") = 1 .. Len(allProcessingJobs)

\* C2 witness: of three jobs the first to settle failed and one settling
\* after it yielded its variant, which the resolved build holds.
FailedJobsWitness ==
    /\ pc = "build:resolved"
    /\ Len(allProcessingJobs) = 3
    /\ Len(jobResults) = 3
    /\ ~jobResults[1].defined
    /\ jobResults[2].defined
    /\ Len(allVariants) >= 1

\* C3: buildFont rejects exactly when loadFonts threw; once loadFonts has
\* returned the build is running or has resolved with a package, whatever
\* jobs failed.
RejectsOnlyOnLoadFailure ==
    /\ pc = "build:rejected" <=> loadFonts = "threw"
    /\ loadFonts = "returned" => pc \in {"build:running", "build:resolved"}
    /\ pc = "build:resolved" => loadFonts = "returned" /\ package.defined

\* C3 witness: the build resolved with a package without fonts although
\* every one of its two or more jobs failed.
RejectsOnlyWitness ==
    /\ pc = "build:resolved"
    /\ Len(allProcessingJobs) >= 2
    /\ JobsIn("failed") = 1 .. Len(allProcessingJobs)
    /\ package.defined
    /\ package.value.fonts = <<>>

\* C4: no package is assembled and buildFont has not resolved before every
\* planned job has yielded a variant or had its failure caught; and when
\* every call returns or throws, a build whose fonts were loaded resolves.
ResolvesOnceAllJobsAttempted ==
    /\ [](package.defined \/ pc = "build:resolved" =>
            /\ \A j \in 1 .. Len(allProcessingJobs) : jobState[j] \in {"done", "failed"}
            /\ Len(jobResults) = Len(allProcessingJobs))
    /\ (loadFonts = "returned" ~> pc = "build:resolved")

\* C4 witness: the build resolved after all of its three jobs had yielded
\* their variants.
ResolvesWitness ==
    /\ pc = "build:resolved"
    /\ Len(allProcessingJobs) = 3
    /\ JobsIn("done") = {1, 2, 3}
    /\ Len(package.value.fonts) = 3

\* the weights for which a variant was produced
ProcessedWeights == {allVariants[i].weight : i \in 1 .. Len(allVariants)}

\* the one closest to 400, the heavier one on a tie
ClosestProcessedWeight ==
    CHOOSE w \in ProcessedWeights :
        \A u \in ProcessedWeights :
            \/ Abs(w - 400) < Abs(u - 400)
            \/ (Abs(w - 400) = Abs(u - 400) /\ w >= u)

CssNamed(name) ==
    {a \in 1 .. Len(package.value.css) : package.value.css[a].filename = name}

\* C5 as stated: a static build that emits a per-weight style sheet emits an
\* index.css, a copy of the sheet of the weight closest to 400 (the heavier
\* on a tie) among the weights for which a variant was produced.
IndexCssCopiesClosestProcessed ==
    (/\ pc = "build:resolved"
     /\ config.type = "static"
     /\ \E a \in 1 .. Len(package.value.css) : package.value.css[a].filename # "index.css")
    => /\ CssNamed("index.css") # {}
       /\ \A i \in CssNamed("index.css") :
              \E a \in CssNamed(ToString(ClosestProcessedWeight) \o ".css")
                       \cup CssNamed(ToString(ClosestProcessedWeight) \o "-italic.css") :
                  package.value.css[a].content = package.value.css[i].content

\* the jobs of the build are planned
JobsPlanned == pc \in {"build:running", "build:resolved"}

\* the planned jobs of the font at position f with weight w
JobsFor(f, w) ==
    {j \in 1 .. Len(allProcessingJobs) :
        allProcessingJobs[j].font = f /\ allProcessingJobs[j].weight = w}

\* the weights to tell apart: those to process, those of the fonts and of
\* the planned jobs
WeightsInPlay ==
    Elems(determineProcessingTargets(fontRefs, config).weightsToProcess)
    \cup {extractFontStyle(fontRefs[f]).weight : f \in 1 .. Len(fontRefs)}
    \cup {allProcessingJobs[j].weight : j \in 1 .. Len(allProcessingJobs)}

StyleSelected(f) ==
    Contains(determineProcessingTargets(fontRefs, config).stylesToProcess,
             extractFontStyle(fontRefs[f]).style)

\* the font at position f can satisfy the target weight w of a static build
TargetFits(f, w) ==
    /\ StyleSelected(f)
    /\ Contains(determineProcessingTargets(fontRefs, config).weightsToProcess, w)
    /\ \/ fontRefs[f].styleValues.weight.type = "variable"
       \/ fontRefs[f].styleValues.weight.value = w

\* some requested subset has a definition with a slice to process, and a
\* format is requested
SomeSubsetYieldsJobs ==
    /\ config.formats # <<>>
    /\ \E i \in 1 .. Len(config.subsets) :
           LET def == MapGet(subsets, config.subsets[i])
           IN def.defined /\ (def.value.type = "range" \/ def.value.slices # <<>>)

\* C18 as stated: in a static build jobs are planned for font f at weight w
\* if and only if f's style is among the styles to process, w is among the
\* weights to process and f has a variable weight or the fixed weight w; a
\* font whose style is not selected has no job.
JobsPlannedIffTargetFits ==
    (JobsPlanned /\ config.type = "static") =>
        \A f \in 1 .. Len(fontRefs) :
            /\ \A w \in WeightsInPlay : JobsFor(f, w) # {} <=> TargetFits(f, w)
            /\ ~StyleSelected(f) =>
                   \A j \in 1 .. Len(allProcessingJobs) : allProcessingJobs[j].font # f

\* C18, amended: the same equivalence where some requested subset has a
\* definition with a slice to process and a format is requested; where none
\* has, no job is planned for any font.
JobsPlannedIffTargetFitsAndSubsetLoaded ==
    (JobsPlanned /\ config.type = "static") =>
        /\ \A f \in 1 .. Len(fontRefs) :
               /\ \A w \in WeightsInPlay :
                      JobsFor(f, w) # {} <=> (TargetFits(f, w) /\ SomeSubsetYieldsJobs)
               /\ ~StyleSelected(f) =>
                      \A j \in 1 .. Len(allProcessingJobs) : allProcessingJobs[j].font # f
        /\ ~SomeSubsetYieldsJobs => allProcessingJobs = <<>>

\* C18 witness: of a regular and an italic font of weight 400, with the
\* weights 400 and 700 and the style normal requested, the regular font has
\* a job at 400 and none at 700, and the italic font has none.
JobsPlannedWitness ==
    /\ JobsPlanned
    /\ config.type = "static"
    /\ fontRefs = <<Regular400, Italic400>>
    /\ config.weights = Some(<<400, 700>>)
    /\ config.styles = Some(<<"normal">>)
    /\ JobsFor(1, 400) # {}
    /\ JobsFor(1, 700) = {}
    /\ JobsFor(2, 400) = {}

\* the (font, weight) combination is one the planner expands: a fitting
\* target of a static build, the font's own weight in a variable build
CombinationPlanned(f, w) ==
    IF config.type = "static" THEN TargetFits(f, w)
    ELSE StyleSelected(f) /\ w = extractFontStyle(fontRefs[f]).weight

\* the planned jobs of a combination for one subset
JobsOfSubset(f, w, name) ==
    {j \in JobsFor(f, w) : allProcessingJobs[j].subsetName = name}

\* exactly one of the jobs has the slice index, the codepoints and the format
OneJobOf(jobs, sliceIndex, cps, format) ==
    Cardinality({j \in jobs : /\ allProcessingJobs[j].sliceIndex = sliceIndex
                              /\ allProcessingJobs[j].codepoints = cps
                              /\ allProcessingJobs[j].format = format}) = 1

\* a static build of one variable-weight font of a selected style, with two
\* distinct weights, one style, one range subset and one format
TwoWeightBuild ==
    /\ config.type = "static"
    /\ Len(fontRefs) = 1
    /\ fontRefs[1].styleValues.weight.type = "variable"
    /\ StyleSelected(1)
    /\ HasLength(config.weights)
    /\ Len(config.weights.value) = 2
    /\ config.weights.value[1] # config.weights.value[2]
    /\ HasLength(config.styles)
    /\ Len(config.styles.value) = 1
    /\ Len(config.subsets) = 1
    /\ MapGet(subsets, config.subsets[1]).defined
    /\ MapGet(subsets, config.subsets[1]).value.type = "range"
    /\ Len(config.formats) = 1

\* C19: for each planned (font, weight) combination and each requested
\* subset, a range definition gives one job per format with slice index 0
\* and the whole codepoint list, a sliced definition of N slices gives one
\* job per slice 1..N and format, and a subset without definition gives
\* none; and one variable-weight font with two weights, one style, one range
\* subset and one format gives two jobs, and two variants of distinct weight
\* when both jobs succeed.
OneJobPerSliceAndFormat ==
    JobsPlanned =>
        /\ \A f \in 1 .. Len(fontRefs) : \A w \in WeightsInPlay :
               CombinationPlanned(f, w) =>
                   \A i \in 1 .. Len(config.subsets) :
                       LET def == MapGet(subsets, config.subsets[i])
                           jobs == JobsOfSubset(f, w, config.subsets[i])
                           formats == config.formats
                       IN IF ~def.defined THEN jobs = {}
                          ELSE IF def.value.type = "range"
                          THEN /\ Cardinality(jobs) = Len(formats)
                               /\ \A fm \in 1 .. Len(formats) :
                                      OneJobOf(jobs, 0, def.value.codepoints, formats[fm])
                          ELSE /\ Cardinality(jobs) = Len(def.value.slices) * Len(formats)
                               /\ \A k \in 1 .. Len(def.value.slices) :
                                      /\ def.value.slices[k].index = k
                                      /\ \A fm \in 1 .. Len(formats) :
                                             OneJobOf(jobs, k, def.value.slices[k].codepoints,
                                                      formats[fm])
        /\ TwoWeightBuild =>
               /\ Len(allProcessingJobs) = 2
               /\ allProcessingJobs[1].weight # allProcessingJobs[2].weight
               /\ (pc = "build:resolved" /\ JobsIn("failed") = {}) =>
                      /\ Len(allVariants) = 2
                      /\ allVariants[1].weight # allVariants[2].weight

\* C19 witness: the build of one variable-weight font with the weights 400
\* and 700, the style normal, the subset latin and the format woff2 has
\* resolved with the two variants of weight 400 and 700.
OneJobPerSliceWitness ==
    /\ pc = "build:resolved"
    /\ TwoWeightBuild
    /\ fontRefs = <<VarWght>>
    /\ config.weights = Some(<<400, 700>>)
    /\ Len(allVariants) = 2
    /\ {allVariants[1].weight, allVariants[2].weight} = {400, 700}

(***************************************************************************)
(* SpecFilename: generateStaticFilename and generateVariableFilename       *)
(* called on their own.                                                    *)
(***************************************************************************)
FilenameStyles == {"normal", "italic", "oblique 10deg", "oblique 14deg"}

StaticFilenameCalls ==
    [familyId : {"inter", "noto-sans-jp"}, subset : {"latin", "japanese"},
     weight : {100, 400, 700}, style : FilenameStyles,
     sliceIndex : 0 .. MaxSliceIndex, format : {"woff", "woff2"}]

VariableFilenameCalls ==
    [familyId : {"inter", "noto-sans-jp"}, subset : {"latin", "japanese"},
     axisKey : {"wght", "standard", "full"}, style : FilenameStyles,
     sliceIndex : 0 .. MaxSliceIndex, format : {"woff", "woff2"}]

InitFilename ==
    /\ pc = "filename:call"
    /\ callArgs \in StaticFilenameCalls \cup VariableFilenameCalls
    /\ callResult = Null
    /\ NoBuild
    /\ codepoints = Null
    /\ rangeString = Null
    /\ config = Null
    /\ subsets = Null
    /\ warnings = <<>>
    /\ variantList = Null
    /\ cssCall = Null
    /\ css = Null

CallGenerateStaticFilename ==
    /\ pc = "filename:call"
    /\ "weight" \in DOMAIN callArgs
    /\ callResult' = generateStaticFilename(callArgs.familyId, callArgs.subset, callArgs.weight,
                                            callArgs.style, callArgs.sliceIndex, callArgs.format)
    /\ pc' = "filename:static"
    /\ UNCHANGED <<config, subsets, warnings, codepoints, rangeString, variantList, cssCall, css,
                   callArgs, buildVars>>

CallGenerateVariableFilename ==
    /\ pc = "filename:call"
    /\ "axisKey" \in DOMAIN callArgs
    /\ callResult' = generateVariableFilename(callArgs.familyId, callArgs.subset,
                                              callArgs.axisKey, callArgs.style,
                                              callArgs.sliceIndex, callArgs.format)
    /\ pc' = "filename:variable"
    /\ UNCHANGED <<config, subsets, warnings, codepoints, rangeString, variantList, cssCall, css,
                   callArgs, buildVars>>

NextFilename == CallGenerateStaticFilename \/ CallGenerateVariableFilename

SpecFilename == InitFilename /\ [][NextFilename]_vars

\* C11: both generators return
\* '<familyId>-<subset>-<weight or axisKey>-<normalizedStyle>[-<sliceIndex>].<format>',
\* the normalized style 'normal' for 'normal' and 'italic' for 'italic' and
\* every 'oblique ...', the slice suffix present exactly when sliceIndex > 0.
FilenameFollowsPattern ==
    pc \in {"filename:static", "filename:variable"} =>
        LET middle == IF pc = "filename:static"
                      THEN ToString(callArgs.weight) ELSE callArgs.axisKey
            normalizedStyle == IF callArgs.style = "normal" THEN "normal" ELSE "italic"
            stem == callArgs.familyId \o "-" \o callArgs.subset \o "-" \o middle
                    \o "-" \o normalizedStyle
        IN /\ callArgs.sliceIndex = 0 => callResult = stem \o "." \o callArgs.format
           /\ callArgs.sliceIndex > 0 =>
                  callResult = stem \o "-" \o ToString(callArgs.sliceIndex)
                               \o "." \o callArgs.format

\* C11 witness: an oblique style at slice 2 gave an 'italic' name with the
\* slice suffix.
FilenameWitness ==
    /\ pc = "filename:static"
    /\ callArgs.style = "oblique 10deg"
    /\ callArgs.sliceIndex = 2
    /\ callResult = "noto-sans-jp-japanese-400-italic-2.woff2"

(***************************************************************************)
(* SpecFace: generateFontFace on one variant, over the axis configurations *)
(* of a variable build.                                                    *)
(***************************************************************************)
AxisOf(tag, min, max) == <<[key |-> tag, value |-> [min |-> min, max |-> max]]>>

FaceWghtAxes == {<<>>, AxisOf("wght", 400, 400), AxisOf("wght", 100, 900), AxisOf("wght", 300, 600)}

FaceSlntAxes ==
    {<<>>, AxisOf("slnt", 0, 0), AxisOf("slnt", -12, -12), AxisOf("slnt", -15, 0),
     AxisOf("slnt", -10, 10), AxisOf("slnt", -20, -5), AxisOf("slnt", 5, 15)}

FaceWdthAxes == {<<>>, AxisOf("wdth", 100, 100), AxisOf("wdth", 75, 125)}

FaceConfigs == {w \o sl \o wd : w \in FaceWghtAxes, sl \in FaceSlntAxes, wd \in FaceWdthAxes}

FaceVariantPool ==
    LET id == normalizeKebabCase(CssFamily)
    IN {VariableVariant(id, "latin", 0, 400, "normal", "woff2", <<>>, cfg,
                        determineAxisKey(cfg, Undefined)) : cfg \in FaceConfigs}
       \cup {StaticVariant(id, "latin", 0, 400, "normal", "woff2", <<>>),
             StaticVariant(id, "latin", 0, 700, "italic", "woff2", <<>>)}

InitFace ==
    /\ pc = "css:call"
    /\ NoBuild
    /\ NoCall
    /\ \E v \in FaceVariantPool : variantList = <<v>>
    /\ cssCall \in CssCalls
    /\ subsets = CssSubsetMap
    /\ css = Null
    /\ config = Null
    /\ warnings = <<>>
    /\ codepoints = Null
    /\ rangeString = Null

SpecFace == InitFace /\ [][NextCss]_vars

\* the block of the variable sheet of one variable variant
VariableBlockRendered ==
    /\ pc = "css:variable"
    /\ Len(variantList) = 1
    /\ variantList[1].type = "variable"
    /\ Len(css) = 1

\* the bounds of an axis of the rendered variant
AxisBounds(tag) == MapGet(variantList[1].variable, tag)

\* C13 as stated: font-weight is min when min = max, 'min max' when
\* min < max, and '100 900' when the weight axis is not configured.
WeightDefaultsToFullSpan ==
    VariableBlockRendered =>
        LET wght == AxisBounds("wght")
        IN css[1].fontWeight =
               IF ~wght.defined THEN "100 900"
               ELSE IF wght.value.min = wght.value.max THEN ToString(wght.value.min)
               ELSE ToString(wght.value.min) \o " " \o ToString(wght.value.max)

\* C13, amended: font-weight is min when the weight axis has min = max,
\* 'min max' when min < max, '100 900' when no axis at all is configured,
\* and '400' when other axes are configured but the weight axis is not.
WeightFollowsAxis ==
    VariableBlockRendered =>
        LET wght == AxisBounds("wght")
        IN css[1].fontWeight =
               IF ~wght.defined
               THEN IF variantList[1].variable = <<>> THEN "100 900" ELSE "400"
               ELSE IF wght.value.min = wght.value.max THEN ToString(wght.value.min)
               ELSE ToString(wght.value.min) \o " " \o ToString(wght.value.max)

\* C13 witness: a block of a variant with a width axis and no weight axis
WeightWitness ==
    /\ VariableBlockRendered
    /\ variantList[1].variable = AxisOf("wdth", 75, 125)
    /\ css[1].fontWeight = "400"

\* C14 as stated: with min # max font-style is 'oblique A B', A and B the
\* absolute values of the bounds with A >= B; with min = max # 0 the single
\* angle; with the axis absent or both bounds zero 'normal'.
ObliqueAnglesDescending ==
    VariableBlockRendered =>
        LET slnt == AxisBounds("slnt")
            a == Abs(slnt.value.min)
            b == Abs(slnt.value.max)
        IN css[1].fontStyle =
               IF ~slnt.defined \/ (slnt.value.min = 0 /\ slnt.value.max = 0) THEN "normal"
               ELSE IF slnt.value.min = slnt.value.max THEN "oblique " \o ToString(a) \o "deg"
               ELSE "oblique " \o ToString(IF a < b THEN b ELSE a) \o "deg "
                    \o ToString(IF a < b THEN a ELSE b) \o "deg"

\* C14, amended: with min # max font-style is 'oblique A B' with A = |max|
\* and B = |min|, whichever is larger; with min = max # 0 the single angle
\* |min|; with the axis absent or both bounds zero 'normal'.
ObliqueAnglesMaxThenMin ==
    VariableBlockRendered =>
        LET slnt == AxisBounds("slnt")
        IN css[1].fontStyle =
               IF ~slnt.defined \/ (slnt.value.min = 0 /\ slnt.value.max = 0) THEN "normal"
               ELSE IF slnt.value.min = slnt.value.max
                    THEN "oblique " \o ToString(Abs(slnt.value.min)) \o "deg"
               ELSE "oblique " \o ToString(Abs(slnt.value.max)) \o "deg "
                    \o ToString(Abs(slnt.value.min)) \o "deg"

\* C14 witness: a slant of -15..0 renders the smaller magnitude first
ObliqueWitness ==
    /\ VariableBlockRendered
    /\ AxisBounds("slnt") = Some([min |-> -15, max |-> 0])
    /\ css[1].fontStyle = "oblique 0deg 15deg"

\* C15 as stated: a variable block declares font-stretch exactly when the
\* width axis is configured with min # max; a static block never does.
StretchOnlyForNonTrivialWidth ==
    /\ VariableBlockRendered =>
           LET wdth == AxisBounds("wdth")
           IN css[1].stretch =
                  IF wdth.defined /\ wdth.value.min # wdth.value.max
                  THEN "\n  font-stretch: " \o ToString(wdth.value.min) \o "% "
                       \o ToString(wdth.value.max) \o "%;"
                  ELSE ""
    /\ pc = "css:static" => \A b \in 1 .. Len(css) : css[b].stretch = ""

\* C15, amended: a variable block declares font-stretch exactly when the
\* width axis is configured, as 'min% max%' when min # max and as the single
\* 'min%' when min = max; a static block never does.
StretchWheneverWidthConfigured ==
    /\ VariableBlockRendered =>
           LET wdth == AxisBounds("wdth")
           IN css[1].stretch =
                  IF ~wdth.defined THEN ""
                  ELSE IF wdth.value.min = wdth.value.max
                       THEN "\n  font-stretch: " \o ToString(wdth.value.min) \o "%;"
                  ELSE "\n  font-stretch: " \o ToString(wdth.value.min) \o "% "
                       \o ToString(wdth.value.max) \o "%;"
    /\ pc = "css:static" => \A b \in 1 .. Len(css) : css[b].stretch = ""

\* C15 witness: a single width of 100 is declared
StretchWitness ==
    /\ VariableBlockRendered
    /\ AxisBounds("wdth") = Some([min |-> 100, max |-> 100])
    /\ css[1].stretch = "\n  font-stretch: 100%;"

(***************************************************************************)
(* SpecAxisKey: determineAxisKey called on its own, over configurations of *)
(* at most MaxAxes axes with distinct tags.                                *)
(***************************************************************************)
AxisTags == {"wght", "wdth", "slnt", "opsz", "ital", "GRAD", "CASL"}

\* an axis of a configuration: configured with bounds, or set to undefined
AxisEntries ==
    {[key |-> tag, value |-> [min |-> 0, max |-> 1]] : tag \in AxisTags}
    \cup {[key |-> tag, value |-> Undefined] : tag \in AxisTags}

AxisConfigs ==
    {c \in SeqsUpTo(AxisEntries, MaxAxes) :
        \A i, j \in 1 .. Len(c) : i # j => c[i].key # c[j].key}

ExplicitAxisKeys == {Undefined, Some(""), Some("WGHT"), Some("Full"), Some("opsz")}

InitAxisKey ==
    /\ pc = "axiskey:call"
    /\ callArgs \in [variableConfig : AxisConfigs, configAxisKey : ExplicitAxisKeys]
    /\ callResult = Null
    /\ NoBuild
    /\ config = Null
    /\ subsets = Null
    /\ warnings = <<>>
    /\ codepoints = Null
    /\ rangeString = Null
    /\ variantList = Null
    /\ cssCall = Null
    /\ css = Null

CallDetermineAxisKey ==
    /\ pc = "axiskey:call"
    /\ callResult' = determineAxisKey(callArgs.variableConfig, callArgs.configAxisKey)
    /\ pc' = "axiskey:returned"
    /\ UNCHANGED <<callArgs, config, subsets, warnings, codepoints, rangeString,
                   variantList, cssCall, css, buildVars>>

NextAxisKey == CallDetermineAxisKey

SpecAxisKey == InitAxisKey /\ [][NextAxisKey]_vars

\* the tags of the axes the configuration gives bounds to, in key order
ConfiguredTags ==
    LET present == SelectSeq(callArgs.variableConfig, LAMBDA entry : entry.value # Undefined)
    IN [i \in 1 .. Len(present) |-> present[i].key]

\* C20: determineAxisKey returns the lowercased explicit key when a
\* (non-empty) one is configured; else 'wght' when no axis is configured;
\* else, with a custom axis, 'full' if there is more than one axis in total
\* and the sole custom tag if not; else 'standard' if there is more than one
\* standard axis and the sole standard tag if not.
AxisKeyFollowsRules ==
    pc = "axiskey:returned" =>
        LET key == callArgs.configAxisKey
            tags == ConfiguredTags
            custom == SelectSeq(tags, LAMBDA t : t \notin {"wght", "wdth", "slnt", "opsz", "ital"})
        IN callResult =
               IF key.defined /\ key.value # "" THEN LowerCase(key.value)
               ELSE IF Len(tags) = 0 THEN "wght"
               ELSE IF Len(custom) > 0
                    THEN IF Len(tags) > 1 THEN "full" ELSE custom[1]
               ELSE IF Len(tags) > 1 THEN "standard" ELSE tags[1]

\* C20 witness: one standard and one custom axis without explicit key give
\* 'full'
AxisKeyWitness ==
    /\ pc = "axiskey:returned"
    /\ callArgs.configAxisKey = Undefined
    /\ ConfiguredTags = <<"wght", "GRAD">>
    /\ callResult = "full"

(***************************************************************************)
(* SpecTargets: determineProcessingTargets called on its own, over lists   *)
(* of at most MaxFonts fonts and the weights and styles of a config.       *)
(***************************************************************************)
\* the fonts of the lists: fixed weights, and weight ranges with and without
\* a default, with and without a multiple of 100 inside
TargetFonts ==
    <<Regular400, Bold700, Italic400, VarWght,
      FontRefOf(VariableStyle(250, 0, 450), 0, 0),
      FontRefOf(VariableStyle(350, 360, 380), 0, -10),
      FontRefOf(VariableStyle(100, 450, 1000), 0, 0)>>

\* the font list of a sequence of positions in TargetFonts
TargetFontList(picks) == [i \in 1 .. Len(picks) |-> TargetFonts[picks[i]]]

TargetWeightLists == {Undefined, Some(<<>>), Some(<<700, 400, 400>>)}

TargetStyleLists == {Undefined, Some(<<>>), Some(<<"italic", "normal">>)}

\* a config as far as determineProcessingTargets reads it
TargetConfigs ==
    {[type |-> "static", weights |-> w, styles |-> st] :
        w \in TargetWeightLists, st \in TargetStyleLists}
    \cup {[type |-> "variable"]}

InitTargets ==
    /\ pc = "targets:call"
    /\ \E picks \in SeqsUpTo(DOMAIN TargetFonts, MaxFonts), cfg \in TargetConfigs :
           callArgs = [fontRefs |-> TargetFontList(picks), config |-> cfg]
    /\ callResult = Null
    /\ NoBuild
    /\ config = Null
    /\ subsets = Null
    /\ warnings = <<>>
    /\ codepoints = Null
    /\ rangeString = Null
    /\ variantList = Null
    /\ cssCall = Null
    /\ css = Null

CallDetermineProcessingTargets ==
    /\ pc = "targets:call"
    /\ callResult' = determineProcessingTargets(callArgs.fontRefs, callArgs.config)
    /\ pc' = "targets:returned"
    /\ UNCHANGED <<callArgs, config, subsets, warnings, codepoints, rangeString,
                   variantList, cssCall, css, buildVars>>

NextTargets == CallDetermineProcessingTargets

SpecTargets == InitTargets /\ [][NextTargets]_vars

\* the weights one font stands for
InferredWeightsOf(font) ==
    IF font.styleValues.weight.type = "single"
    THEN {font.styleValues.weight.value}
    ELSE LET range == font.styleValues.weight.value
         IN {range.min, range.max}
            \cup (IF range.defaultValue # 0 THEN {range.defaultValue} ELSE {})
            \cup {100 * k : k \in {n \in 1 .. 10 : range.min <= 100 * n /\ 100 * n <= range.max}}

\* C21: with no weight list in a static config the resolved weights are the
\* fixed weights of the fonts and, per variable-weight font, its minimum,
\* maximum, non-zero default and the multiples of 100 in 100..1000 within
\* its range, strictly ascending; with a non-empty weight list and a
\* non-empty style list both are used as they are.
WeightsInferredOrVerbatim ==
    (pc = "targets:returned" /\ callArgs.config.type = "static") =>
        LET cfg == callArgs.config
            fonts == callArgs.fontRefs
            weights == callResult.weightsToProcess
        IN /\ ~HasLength(cfg.weights) =>
                  /\ Elems(weights) = UNION {InferredWeightsOf(fonts[i]) : i \in 1 .. Len(fonts)}
                  /\ \A i, j \in 1 .. Len(weights) : i < j => weights[i] < weights[j]
           /\ (HasLength(cfg.weights) /\ HasLength(cfg.styles)) =>
                  /\ weights = cfg.weights.value
                  /\ callResult.stylesToProcess = cfg.styles.value

\* C21 witness: a fixed weight of 700 and the range 250..450 without default
\* resolve to 250, 300, 400, 450, 700
WeightsInferredWitness ==
    /\ pc = "targets:returned"
    /\ callArgs.config.type = "static"
    /\ callArgs.config.weights = Undefined
    /\ Len(callArgs.fontRefs) = 2
    /\ callArgs.fontRefs[1].styleValues.weight.type = "single"
    /\ callArgs.fontRefs[1].styleValues.weight.value = 700
    /\ callArgs.fontRefs[2].styleValues.weight.type = "variable"
    /\ callArgs.fontRefs[2].styleValues.weight = VariableStyle(250, 0, 450)
    /\ callResult.weightsToProcess = <<250, 300, 400, 450, 700>>

(***************************************************************************)
(* SpecAxisValues: buildAxisValues called on its own, as processSlice      *)
(* calls it for a job of a variable build (an axis configuration, no       *)
(* target weight) and of a static build (no configuration, a target        *)
(* weight).                                                                *)
(***************************************************************************)
\* the fonts: fixed in every style value; a weight range; ranges of weight,
\* width and slant; fixed style values with an optical-size axis; and with
\* a custom axis
AxisFonts ==
    <<FontRefWithAxes(SingleStyle(400), SingleStyle(100), SingleStyle(0), <<>>),
      FontRefWithAxes(VariableStyle(300, 400, 500), SingleStyle(100), SingleStyle(0), <<>>),
      FontRefWithAxes(VariableStyle(100, 400, 900), VariableStyle(75, 100, 125),
                      VariableStyle(-10, 0, 0), <<>>),
      FontRefWithAxes(SingleStyle(400), SingleStyle(100), SingleStyle(0),
                      <<[tag |-> "opsz", min |-> 8, defaultValue |-> 14, max |-> 144]>>),
      FontRefWithAxes(SingleStyle(400), SingleStyle(100), SingleStyle(0),
                      <<[tag |-> "GRAD", min |-> -200, defaultValue |-> 0, max |-> 150]>>)>>

\* the axes of the configurations, with bounds or set to undefined
ConstraintEntries ==
    {[key |-> "wght", value |-> [min |-> 300, max |-> 500]],
     [key |-> "wght", value |-> [min |-> 500, max |-> 900]],
     [key |-> "wdth", value |-> [min |-> 75, max |-> 100]],
     [key |-> "slnt", value |-> [min |-> -10, max |-> 0]],
     [key |-> "opsz", value |-> [min |-> 8, max |-> 144]],
     [key |-> "GRAD", value |-> [min |-> -200, max |-> 150]],
     [key |-> "wght", value |-> Undefined],
     [key |-> "opsz", value |-> Undefined]}

ConstraintConfigs ==
    {c \in SeqsUpTo(ConstraintEntries, MaxAxes) :
        \A i, j \in 1 .. Len(c) : i # j => c[i].key # c[j].key}

\* the variableConfig and targetWeight of a job: of a variable build, and
\* of a static build
AxisValueCalls ==
    {[variableConfig |-> Some(c), targetWeight |-> Undefined] : c \in ConstraintConfigs}
    \cup {[variableConfig |-> Undefined, targetWeight |-> Some(w)] : w \in {400, 700}}

InitAxisValues ==
    /\ pc = "axisvalues:call"
    /\ \E f \in DOMAIN AxisFonts, call \in AxisValueCalls :
           callArgs = [font |-> AxisFonts[f], variableConfig |-> call.variableConfig,
                       targetWeight |-> call.targetWeight]
    /\ callResult = Null
    /\ NoBuild
    /\ config = Null
    /\ subsets = Null
    /\ warnings = <<>>
    /\ codepoints = Null
    /\ rangeString = Null
    /\ variantList = Null
    /\ cssCall = Null
    /\ css = Null

CallBuildAxisValues ==
    /\ pc = "axisvalues:call"
    /\ callResult' = buildAxisValues(callArgs.font, callArgs.variableConfig,
                                     callArgs.targetWeight)
    /\ pc' = "axisvalues:returned"
    /\ UNCHANGED <<callArgs, config, subsets, warnings, codepoints, rangeString,
                   variantList, cssCall, css, buildVars>>

NextAxisValues == CallBuildAxisValues

SpecAxisValues == InitAxisValues /\ [][NextAxisValues]_vars

\* the constraints of a job of a variable build were built
VariableConstraintsBuilt ==
    /\ pc = "axisvalues:returned"
    /\ callArgs.variableConfig.defined

\* the axes of the call's configuration that have bounds, in key order
ConfiguredAxes ==
    SelectSeq(callArgs.variableConfig.value, LAMBDA entry : entry.value # Undefined)

\* the default the font declares for the axis of a tag: of the style value
\* of a weight, width, slant or italic axis, or of the axis it lists
DeclaredDefault(font, tag) ==
    LET styleKeys == [wght |-> "weight", wdth |-> "width", slnt |-> "slant", ital |-> "italic"]
        listed == {a \in 1 .. Len(font.axes) : font.axes[a].tag = tag}
    IN IF tag \in DOMAIN styleKeys /\ font.styleValues[styleKeys[tag]].type = "variable"
       THEN Some(font.styleValues[styleKeys[tag]].value.defaultValue)
       ELSE IF listed # {}
       THEN Some(font.axes[CHOOSE a \in listed : TRUE].defaultValue)
       ELSE Undefined

\* C22: in a variable build the subsetting call gets one variable constraint
\* per configured axis, with the min and max of the configuration, and with
\* the default the font declares for an axis of that tag, whatever the tag,
\* or the configured min where the font declares no such axis.
ConstraintDefaultsFromFont ==
    VariableConstraintsBuilt =>
        /\ Len(callResult) = Len(ConfiguredAxes)
        /\ \A i \in 1 .. Len(ConfiguredAxes) :
               LET axis == ConfiguredAxes[i]
                   declared == DeclaredDefault(callArgs.font, axis.key)
               IN /\ callResult[i].type = "variable"
                  /\ callResult[i].tag = axis.key
                  /\ callResult[i].value.min = axis.value.min
                  /\ callResult[i].value.max = axis.value.max
                  /\ callResult[i].value.defaultValue =
                         IF declared.defined THEN declared.value ELSE axis.value.min

\* C29: every variable constraint built for an axis configured with
\* min <= max has min <= default <= max.
ConstraintDefaultWithinBounds ==
    VariableConstraintsBuilt =>
        \A i \in 1 .. Len(callResult) :
            callResult[i].value.min <= callResult[i].value.max =>
                /\ callResult[i].value.min <= callResult[i].value.defaultValue
                /\ callResult[i].value.defaultValue <= callResult[i].value.max

JobsWriteNoSharedState ==
    [][pc = "build:running" =>
           /\ config' = config
           /\ fontRefs' = fontRefs
           /\ subsets' = subsets
           /\ allProcessingJobs' = allProcessingJobs]_vars

\* C25 witness: a build of three jobs has resolved after a job failed and a
\* job yielded its variant, and its job list is still the one planned.
JobsWriteNoSharedStateWitness ==
    /\ pc = "build:resolved"
    /\ Len(allProcessingJobs) = 3
    /\ JobsIn("failed") # {}
    /\ JobsIn("done") # {}
    /\ subsets = generateSubsetData(config).subsetData
    /\ allProcessingJobs = PlanJobs(fontRefs, config, subsets)

\* C26: no two font assets of the package share a filename.
FontFilenamesDistinct ==
    pc = "build:resolved" =>
        \A i, j \in 1 .. Len(package.value.fonts) :
            i # j => package.value.fonts[i].filename # package.value.fonts[j].filename

\* C27: no two CSS assets of the package share a filename, and so at most
\* one is named index.css.
CssFilenamesDistinct ==
    pc = "build:resolved" =>
        \A a, b \in 1 .. Len(package.value.css) :
            a # b => package.value.css[a].filename # package.value.css[b].filename

\* the urls of the src entries of all blocks of all style sheets
PackageUrls ==
    UNION {UNION {Elems(BlockUrls(package.value.css[a].content[b])) :
                     b \in 1 .. Len(package.value.css[a].content)} :
              a \in 1 .. Len(package.value.css)}

\* C28: every url './files/<name>' of a style sheet of the package names a
\* font asset 'files/<name>' of the package, and every font asset is named
\* by a url of some style sheet.
FontsAndSrcCorrespond ==
    pc = "build:resolved" =>
        /\ \A u \in PackageUrls :
               \E i \in 1 .. Len(package.value.fonts) :
                   "./" \o package.value.fonts[i].filename = u
        /\ \A i \in 1 .. Len(package.value.fonts) :
               "./" \o package.value.fonts[i].filename \in PackageUrls

\* C30: the files a block lists come from variants of one style class
\* (normal, or italic with oblique) and one weight.
BlockOfOneStyleAndWeight ==
    pc = "build:resolved" =>
        \A a \in 1 .. Len(package.value.css) :
            \A b \in 1 .. Len(package.value.css[a].content) :
                LET urls == Elems(BlockUrls(package.value.css[a].content[b]))
                    listed == {i \in 1 .. Len(allVariants) :
                                  "./files/" \o allVariants[i].filename \in urls}
                IN \A i, j \in listed :
                       /\ normalizeStyleForFilename(allVariants[i].style)
                              = normalizeStyleForFilename(allVariants[j].style)
                       /\ allVariants[i].weight = allVariants[j].weight

====
